---- MODULE Spec2Model ----
(***************************************************************************)
(* ClearyFi: the weather-to-recommendation analysis engine.                *)
(*                                                                         *)
(* Conventions of the model                                                *)
(*  - A Python dict is a function whose DOMAIN is the set of keys present; *)
(*    dict.get(k, default) is Get(d, k, default).                          *)
(*  - Every numeric field holds TEN TIMES the program's value, so that the *)
(*    one-decimal values of the program (rain_prob 0.1, confidence 0.8,    *)
(*    temperatures rounded to one decimal) are integers.  Thresholds are   *)
(*    scaled the same way (the program's 0.2 is 2, its 15 is 150).         *)
(*  - A Python str that the program inspects character by character        *)
(*    (condition labels) is a sequence of one-character strings.           *)
(*  - A formatted message is the record of its template and of the values  *)
(*    substituted into it.                                                 *)
(***************************************************************************)
EXTENDS Integers, Sequences, FiniteSets, TLC

VARIABLES
    days,           \* RecommendationEngine: the `days` argument being assembled
    events_by_day,  \* RecommendationEngine: the `events_by_day` argument
    summary,        \* RecommendationEngine: value returned by build_forecast_summary
    raw_samples,    \* Normalizer: the raw 3-hour samples received so far
    daily,          \* Normalizer: the list of normalized days (wa.daily)
    ev_pc,          \* "input" | "normalized" | "evaluated"
    evt_day,        \* the day handed to the detector registry
    registry,       \* the detectors registered, in evaluation order
    events,         \* value returned by run_all / get_day_events
    api_list,       \* WeatherAPIClient: the 'list' of the provider's reply
    api_days,       \* WeatherAPIClient: the `days` argument of the last call
    forecast,       \* what api_client.get_forecast gave its caller
    fc_pc,          \* "input" | "received" | "analyzed" | "fetched" | "built" | "sent"
    analyzer,       \* the fields of the WeatherAnalyzer object built from forecast
    weather_data,   \* value returned by WeatherService.get_city_forecast
    message,        \* the text handed to the user
    rec_class,      \* recommendation service: the class of the instance
    rec_cache,      \* recommendation service: self.cache
    rec_now,        \* datetime.now().timestamp(), in seconds
    rec_last,       \* the last get_recommendation call and what it returned
    daemon,         \* the process running: "weather_daemon" | "notification_daemon"
    wd_pc,          \* run_daemon: "check" | "send" | "recover" | "returned"
    users,          \* run_daemon: the list db.get_all_active_users() returned
    attempted,      \* run_daemon: the send_recommendation calls of this pass
    success_count,  \* run_daemon: success_count
    subscribers,    \* NotificationDaemon: rows with notifications_enabled = 1
    clock,          \* NotificationDaemon: datetime.now(), minutes of the day
    nd_pc,          \* process_scheduled_notifications: "idle" | "gather"
    tasks,          \* the coroutines handed to asyncio.gather
    stats,          \* NotificationDaemon.stats
    cycle           \* what the running cycle started from

engineVars == <<days, events_by_day, summary>>
eventVars  == <<raw_samples, daily, ev_pc, evt_day, registry, events>>
weatherVars == <<api_list, api_days, forecast, fc_pc, analyzer, weather_data, message>>
recVars == <<rec_class, rec_cache, rec_now, rec_last>>
daemonVars == <<daemon, wd_pc, users, attempted, success_count, subscribers, clock,
                nd_pc, tasks, stats, cycle>>
vars == <<days, events_by_day, summary, raw_samples, daily, ev_pc, evt_day, registry,
          events, api_list, api_days, forecast, fc_pc, analyzer, weather_data, message,
          rec_class, rec_cache, rec_now, rec_last,
          daemon, wd_pc, users, attempted, success_count, subscribers, clock,
          nd_pc, tasks, stats, cycle>>

----------------------------------------------------------------------------
(* Bounds *)

MaxDays == 4
MaxSamples == 3
MaxItems == 3

----------------------------------------------------------------------------
(* Python helpers *)

Get(d, k, default) == IF k \in DOMAIN d THEN d[k] ELSE default

\* str.lower() on one character
LowerChar(ch) ==
    CASE ch = "A" -> "a" [] ch = "B" -> "b" [] ch = "C" -> "c" [] ch = "D" -> "d"
      [] ch = "E" -> "e" [] ch = "F" -> "f" [] ch = "G" -> "g" [] ch = "H" -> "h"
      [] ch = "I" -> "i" [] ch = "J" -> "j" [] ch = "K" -> "k" [] ch = "L" -> "l"
      [] ch = "M" -> "m" [] ch = "N" -> "n" [] ch = "O" -> "o" [] ch = "P" -> "p"
      [] ch = "Q" -> "q" [] ch = "R" -> "r" [] ch = "S" -> "s" [] ch = "T" -> "t"
      [] ch = "U" -> "u" [] ch = "V" -> "v" [] ch = "W" -> "w" [] ch = "X" -> "x"
      [] ch = "Y" -> "y" [] ch = "Z" -> "z" [] OTHER -> ch

\* str.lower()
Lower(s) == [i \in 1..Len(s) |-> LowerChar(s[i])]

\* sub in s  (substring test)
Contains(sub, s) ==
    \E i \in 1..(Len(s) - Len(sub) + 1) : SubSeq(s, i, i + Len(sub) - 1) = sub

snow == <<"s", "n", "o", "w">>

\* "snow" in c.lower()
HasSnow(c) == Contains(snow, Lower(c))

\* any("snow" in c.lower() for c in conditions)
AnySnow(conditions) == \E i \in 1..Len(conditions) : HasSnow(conditions[i])

\* seq[:n]
Take(s, n) == SubSeq(s, 1, IF Len(s) < n THEN Len(s) ELSE n)

\* condition labels as the weather provider spells them
LSnow  == <<"S", "n", "o", "w">>
LClear == <<"C", "l", "e", "a", "r">>
LRain  == <<"R", "a", "i", "n">>


----------------------------------------------------------------------------
(* core/recommendation_engine.py : RecommendationEngine *)

\* str(date) of the n-th calendar day of a forecast
DateOf(n) == ToString(n)

\* ---- _build_wash_advice -------------------------------------------------

\* (mutant) a missing confidence read as 0 instead of 1.0
WashTier_ConfidenceZero(day) ==
    LET dry_window == Get(day, "dry_window", FALSE)
        rain_prob  == Get(day, "rain_prob", 0)
        mud_flag   == Get(day, "mud_flag", FALSE)
        confidence == Get(day, "confidence", 0)
        dry_hours  == Get(day, "dry_hours", 0)
    IN  IF dry_window /\ rain_prob = 0 /\ ~mud_flag /\ confidence > 8
          THEN "excellent"
        ELSE IF dry_window /\ rain_prob <= 2 /\ ~mud_flag
          THEN "good"
        ELSE IF rain_prob <= 3 /\ ~mud_flag /\ dry_hours >= 60
          THEN "acceptable"
        ELSE "none"

\* the if / elif / elif chain that sorts one day into a tier
WashTier(day) ==
    LET dry_window == Get(day, "dry_window", FALSE)
        rain_prob  == Get(day, "rain_prob", 0)
        mud_flag   == Get(day, "mud_flag", FALSE)
        confidence == Get(day, "confidence", 10)
        dry_hours  == Get(day, "dry_hours", 0)
    IN  IF dry_window /\ rain_prob = 0 /\ ~mud_flag /\ confidence > 8
          THEN "excellent"
        ELSE IF dry_window /\ rain_prob <= 2 /\ ~mud_flag
          THEN "good"
        ELSE IF rain_prob <= 3 /\ ~mud_flag /\ dry_hours >= 60
          THEN "acceptable"
        ELSE "none"

\* (mutant) three separate `if` instead of if / elif / elif: a day is entered
\* in every tier whose condition it meets
TierDates_NoElif(ds, tier) ==
    LET Meets(d) ==
            LET dry_window == Get(d, "dry_window", FALSE)
                rain_prob  == Get(d, "rain_prob", 0)
                mud_flag   == Get(d, "mud_flag", FALSE)
            IN  CASE tier = "excellent" ->
                       dry_window /\ rain_prob = 0 /\ ~mud_flag
                         /\ Get(d, "confidence", 10) > 8
                  [] tier = "good" -> dry_window /\ rain_prob <= 2 /\ ~mud_flag
                  [] OTHER -> rain_prob <= 3 /\ ~mud_flag /\ Get(d, "dry_hours", 0) >= 60
        sel == SelectSeq(ds, Meets)
    IN  [i \in 1..Len(sel) |-> Get(sel[i], "date", "")]

\* excellent_days / good_days / acceptable_days: dates of the tier, in list order
TierDates(ds, tier) ==
    LET sel == SelectSeq(ds, LAMBDA d : WashTier(d) = tier)
    IN  [i \in 1..Len(sel) |-> Get(sel[i], "date", "")]

\* the reasons of the "postpone" message
PostponeReasons(ds) ==
    (IF \E i \in 1..Len(ds) : Get(ds[i], "rain_prob", 0) > 5
       THEN <<"rain_expected">> ELSE <<>>)
    \o (IF \E i \in 1..Len(ds) : Get(ds[i], "mud_flag", FALSE)
       THEN <<"mud_risk">> ELSE <<>>)
    \o (IF ~ \E i \in 1..Len(ds) : Get(ds[i], "dry_window", FALSE)
       THEN <<"no_dry_window">> ELSE <<>>)

\* (mutant) the generic reason forgotten: reason_text = ", ".join(reasons)
ReasonText_NoFallback(reasons) == reasons

\* reason_text = ", ".join(reasons) if reasons else "неблагоприятные условия"
ReasonText(reasons) == IF reasons # <<>> THEN reasons ELSE <<"unfavourable">>

build_wash_advice(ds) ==
    LET excellent_days  == TierDates(ds, "excellent")
        good_days       == TierDates(ds, "good")
        acceptable_days == TierDates(ds, "acceptable")
        reasons         == PostponeReasons(ds)
    IN  IF excellent_days # <<>> THEN
            IF Len(excellent_days) = 1
              THEN [kind |-> "excellent_one", dates |-> <<excellent_days[1]>>,
                    reasons |-> <<>>]
              ELSE [kind |-> "excellent_many", dates |-> Take(excellent_days, 2),
                    reasons |-> <<>>]
        ELSE IF good_days # <<>> THEN
            [kind |-> "good", dates |-> Take(good_days, 2), reasons |-> <<>>]
        ELSE IF acceptable_days # <<>> THEN
            [kind |-> "acceptable", dates |-> <<acceptable_days[1]>>, reasons |-> <<>>]
        ELSE
            [kind |-> "postpone", dates |-> <<>>, reasons |-> ReasonText(reasons)]

\* ---- _build_mud_risk ----------------------------------------------------

\* (mutant) the buckets tried from the lowest severity up
build_mud_risk_LowestFirst(ds) ==
    LET Dates(bucket) ==
            LET sel == SelectSeq(ds, LAMBDA d :
                           Get(d, "mud_flag", FALSE)
                           /\ CASE bucket = "high" -> Get(d, "rain_prob", 0) >= 7
                                 [] bucket = "medium" ->
                                      Get(d, "rain_prob", 0) >= 3 /\ Get(d, "rain_prob", 0) < 7
                                 [] OTHER -> Get(d, "rain_prob", 0) < 3)
            IN  [i \in 1..Len(sel) |-> Get(sel[i], "date", "")]
    IN  IF Dates("low") # <<>> THEN [level |-> "low", dates |-> Dates("low")]
        ELSE IF Dates("medium") # <<>> THEN [level |-> "medium", dates |-> Dates("medium")]
        ELSE IF Dates("high") # <<>> THEN [level |-> "high", dates |-> Dates("high")]
        ELSE [level |-> "none", dates |-> <<>>]

MudBucket(d) ==
    LET mud_flag  == Get(d, "mud_flag", FALSE)
        rain_prob == Get(d, "rain_prob", 0)
    IN  IF mud_flag /\ rain_prob >= 7 THEN "high"
        ELSE IF mud_flag /\ rain_prob >= 3 THEN "medium"
        ELSE IF mud_flag THEN "low"
        ELSE "none"

BucketDates(ds, bucket) ==
    LET sel == SelectSeq(ds, LAMBDA d : MudBucket(d) = bucket)
    IN  [i \in 1..Len(sel) |-> Get(sel[i], "date", "")]

build_mud_risk(ds) ==
    LET high_risk   == BucketDates(ds, "high")
        medium_risk == BucketDates(ds, "medium")
        low_risk    == BucketDates(ds, "low")
    IN  IF high_risk # <<>> THEN [level |-> "high", dates |-> high_risk]
        ELSE IF medium_risk # <<>> THEN [level |-> "medium", dates |-> medium_risk]
        ELSE IF low_risk # <<>> THEN [level |-> "low", dates |-> low_risk]
        ELSE [level |-> "none", dates |-> <<>>]

\* ---- _build_alerts ------------------------------------------------------

Wind(d) == Get(d, "wind_speed", Get(d, "wind", 0))

\* (mutant) only the highest-priority alert of a day is emitted
DayAlerts_HighestOnly(d) ==
    LET date == Get(d, "date", "")
        A(kind) == <<[date |-> date, kind |-> kind]>>
    IN  IF Get(d, "ice_risk", FALSE) THEN A("ice")
        ELSE IF Get(d, "storm_risk", FALSE) THEN A("storm")
        ELSE IF Get(d, "temp_drop", FALSE) THEN A("temp_drop")
        ELSE IF Get(d, "humidity", 0) > 900 THEN A("humidity")
        ELSE IF Wind(d) > 150 THEN A("wind")
        ELSE <<>>

DayAlerts(d) ==
    LET date      == Get(d, "date", "")
        temp_drop == Get(d, "temp_drop", FALSE)
        A(kind)   == <<[date |-> date, kind |-> kind]>>
    IN  (IF Get(d, "ice_risk", FALSE) THEN A("ice") ELSE <<>>)
     \o (IF Get(d, "storm_risk", FALSE) THEN A("storm") ELSE <<>>)
     \o (IF temp_drop /\ "temp" \in DOMAIN d /\ d["temp"] < 0 THEN A("temp_drop_ice")
         ELSE IF temp_drop THEN A("temp_drop")
         ELSE <<>>)
     \o (IF Get(d, "rain_prob", 0) = 10 /\ AnySnow(Get(d, "conditions", <<>>))
           THEN A("wet_snow") ELSE <<>>)
     \o (IF Get(d, "humidity", 0) > 900 THEN A("humidity") ELSE <<>>)
     \o (IF Wind(d) > 150 THEN A("wind") ELSE <<>>)

RECURSIVE build_alerts(_)
build_alerts(ds) ==
    IF ds = <<>> THEN <<>> ELSE DayAlerts(Head(ds)) \o build_alerts(Tail(ds))

\* ---- _find_best_wash_days -----------------------------------------------

\* (mutant) `rp == 0` written as `rp >= 0`
WashPoints_RainIgnored(d) ==
    LET temp == Get(d, "temp", 0)
    IN  (IF Get(d, "dry_window", FALSE) THEN 3 ELSE 0)
      + 2
      + (IF ~Get(d, "mud_flag", FALSE) THEN 2 ELSE 0)
      + (IF Wind(d) < 50 THEN 1 ELSE 0)
      + (IF Get(d, "sunny_hours", 0) > 60 THEN 1 ELSE 0)
      + (IF 150 <= temp /\ temp <= 250 THEN 1 ELSE 0)
      - (IF Get(d, "humidity", 0) > 850 THEN 1 ELSE 0)
      - (IF Get(d, "pollen_level", 0) > 70 THEN 1 ELSE 0)

WashPoints(d) ==
    LET rp   == Get(d, "rain_prob", 0)
        temp == Get(d, "temp", 0)
    IN  (IF Get(d, "dry_window", FALSE) THEN 3 ELSE 0)
      + (IF rp = 0 THEN 2 ELSE IF rp <= 1 THEN 1 ELSE 0)
      + (IF ~Get(d, "mud_flag", FALSE) THEN 2 ELSE 0)
      + (IF Wind(d) < 50 THEN 1 ELSE 0)
      + (IF Get(d, "sunny_hours", 0) > 60 THEN 1 ELSE 0)
      + (IF 150 <= temp /\ temp <= 250 THEN 1 ELSE 0)
      - (IF Get(d, "humidity", 0) > 850 THEN 1 ELSE 0)
      - (IF Get(d, "pollen_level", 0) > 70 THEN 1 ELSE 0)

\* the (date, score) pairs appended to scored_days, in list order
ScoredDays(ds) ==
    LET sel == SelectSeq(ds, LAMBDA d : WashPoints(d) >= 5)
    IN  [i \in 1..Len(sel) |-> [date |-> Get(sel[i], "date", ""),
                                score |-> WashPoints(sel[i])]]

\* (mutant) a sort that puts the later of two equal scores first
RECURSIVE InsertDesc_TiesReversed(_, _)
InsertDesc_TiesReversed(sorted, x) ==
    IF sorted = <<>> THEN <<x>>
    ELSE IF Head(sorted).score > x.score
      THEN <<Head(sorted)>> \o InsertDesc_TiesReversed(Tail(sorted), x)
      ELSE <<x>> \o sorted

\* list.sort(key=score, reverse=True): stable, equal scores keep their order
RECURSIVE InsertDesc(_, _)
InsertDesc(sorted, x) ==
    IF sorted = <<>> THEN <<x>>
    ELSE IF Head(sorted).score >= x.score
      THEN <<Head(sorted)>> \o InsertDesc(Tail(sorted), x)
      ELSE <<x>> \o sorted

RECURSIVE SortDesc(_)
SortDesc(s) ==
    IF s = <<>> THEN <<>>
    ELSE InsertDesc(SortDesc(SubSeq(s, 1, Len(s) - 1)), s[Len(s)])

\* (mutant) the slice [:3] forgotten
BestSlice_NoCap(sorted) == sorted

\* scored_days[:3]
BestSlice(sorted) == Take(sorted, 3)

find_best_wash_days(ds) ==
    LET top == BestSlice(SortDesc(ScoredDays(ds)))
    IN  [i \in 1..Len(top) |-> top[i].date]

\* ---- _build_day_text ----------------------------------------------------

\* (mutant) the High label given from rain_prob >= 0.5 on
build_day_text_RiskAtHalf(day, evs) ==
    LET mud_flag  == Get(day, "mud_flag", FALSE)
        rain_prob == Get(day, "rain_prob", 0)
        wash_conditions ==
               (IF Get(day, "dry_window", FALSE) THEN <<"dry_window">> ELSE <<>>)
            \o (IF rain_prob = 0 THEN <<"no_rain">> ELSE <<>>)
            \o (IF ~mud_flag THEN <<"no_mud">> ELSE <<>>)
    IN  [date |-> Get(day, "date", ""),
         cond |-> Get(day, "conditions", <<>>),
         temp |-> IF "temp" \in DOMAIN day THEN ToString(day["temp"]) ELSE "N/A",
         hum  |-> IF "humidity" \in DOMAIN day THEN ToString(day["humidity"]) ELSE "N/A",
         \* int(rain_prob*100) when rain_prob <= 1, else str(rain_prob)
         rain_text |-> IF rain_prob <= 10 THEN ToString(rain_prob * 10) \o "%"
                       ELSE ToString(rain_prob),
         risk |-> IF mud_flag /\ rain_prob >= 5 THEN "High"
                  ELSE IF mud_flag THEN "Medium" ELSE "Low",
         wash_status |-> IF wash_conditions # <<>> THEN "suitable" ELSE "unsuitable",
         wash_details |-> wash_conditions,
         \* e.get("message") or e.get("name")
         events |-> IF evs # <<>>
                      THEN [i \in 1..Len(evs) |->
                              IF Get(evs[i], "message", "") # ""
                                THEN evs[i]["message"] ELSE Get(evs[i], "name", "")]
                      ELSE <<"no_events">>]

build_day_text(day, evs) ==
    LET mud_flag  == Get(day, "mud_flag", FALSE)
        rain_prob == Get(day, "rain_prob", 0)
        wash_conditions ==
               (IF Get(day, "dry_window", FALSE) THEN <<"dry_window">> ELSE <<>>)
            \o (IF rain_prob = 0 THEN <<"no_rain">> ELSE <<>>)
            \o (IF ~mud_flag THEN <<"no_mud">> ELSE <<>>)
    IN  [date |-> Get(day, "date", ""),
         cond |-> Get(day, "conditions", <<>>),
         temp |-> IF "temp" \in DOMAIN day THEN ToString(day["temp"]) ELSE "N/A",
         hum  |-> IF "humidity" \in DOMAIN day THEN ToString(day["humidity"]) ELSE "N/A",
         \* int(rain_prob*100) when rain_prob <= 1, else str(rain_prob)
         rain_text |-> IF rain_prob <= 10 THEN ToString(rain_prob * 10) \o "%"
                       ELSE ToString(rain_prob),
         risk |-> IF mud_flag /\ rain_prob > 5 THEN "High"
                  ELSE IF mud_flag THEN "Medium" ELSE "Low",
         wash_status |-> IF wash_conditions # <<>> THEN "suitable" ELSE "unsuitable",
         wash_details |-> wash_conditions,
         \* e.get("message") or e.get("name")
         events |-> IF evs # <<>>
                      THEN [i \in 1..Len(evs) |->
                              IF Get(evs[i], "message", "") # ""
                                THEN evs[i]["message"] ELSE Get(evs[i], "name", "")]
                      ELSE <<"no_events">>]

\* ---- build_forecast_summary ---------------------------------------------

\* summary["day_summaries"][date] = ... for d in days: a later day with the
\* same date overwrites an earlier one
DaySummaries(ds, evs_by_day) ==
    LET DateAt(i) == Get(ds[i], "date", "unknown")
        dates == {DateAt(i) : i \in 1..Len(ds)}
        Last(dt) == CHOOSE i \in 1..Len(ds) :
                        DateAt(i) = dt /\ \A j \in 1..Len(ds) : DateAt(j) = dt => j <= i
    IN  [dt \in dates |-> build_day_text(ds[Last(dt)], Get(evs_by_day, dt, <<>>))]

build_forecast_summary(ds, evs_by_day) ==
    [wash_advice   |-> build_wash_advice(ds),
     mud_risk      |-> build_mud_risk(ds),
     alerts        |-> build_alerts(ds),
     best_days     |-> find_best_wash_days(ds),
     day_summaries |-> DaySummaries(ds, evs_by_day)]

----------------------------------------------------------------------------
(* events/*.py : the detector set *)

\* RainEvent.is_triggered
RainEvent_is_triggered(d) == Get(d, "rain_prob", 0) # 0

\* (mutant) the labels compared without lower()
SnowEvent_CaseSensitive(d) ==
    \E i \in 1..Len(Get(d, "conditions", <<>>)) : Contains(snow, d["conditions"][i])

\* SnowEvent.is_triggered
SnowEvent_is_triggered(d) ==
    LET conds == [i \in 1..Len(Get(d, "conditions", <<>>)) |-> Lower(d["conditions"][i])]
    IN  \E i \in 1..Len(conds) : Contains(snow, conds[i])

\* MeltEvent.is_triggered
MeltEvent_is_triggered(d) == Get(d, "melt_flag", FALSE)

\* (mutant) `and` written as `or`
MudEvent_AnyWet(d) ==
    LET humidity == Get(d, "humidity", 0)
        precip   == Get(d, "rain_prob", 0) # 0
    IN  (humidity >= 750 \/ precip) \/ Get(d, "melt_flag", FALSE)

\* MudEvent.is_triggered
MudEvent_is_triggered(d) ==
    LET humidity == Get(d, "humidity", 0)
        precip   == Get(d, "rain_prob", 0) # 0
    IN  (humidity >= 750 /\ precip) \/ Get(d, "melt_flag", FALSE)

\* (mutant) the fallback rule applied even when temp_delta is present
TemperatureDropEvent_AlwaysFallback(d) ==
    ("temp_delta" \in DOMAIN d /\ d["temp_delta"] <= -50) \/ Get(d, "temp", 9990) <= 10

\* TemperatureDropEvent.is_triggered; day.get("temp_delta") is None both for
\* an absent key and for a key holding None: both are an absent key here
TemperatureDropEvent_is_triggered(d) ==
    IF "temp_delta" \in DOMAIN d
      THEN d["temp_delta"] <= -50
      ELSE Get(d, "temp", 9990) <= 10

\* DryWindowEvent.is_triggered
DryWindowEvent_is_triggered(d) ==
    Get(d, "rain_prob", 0) = 0 /\ Get(d, "humidity", 1000) < 700

Detectors ==
    {"RainEvent", "SnowEvent", "MeltEvent", "MudEvent", "TemperatureDropEvent",
     "DryWindowEvent"}

\* det.is_triggered(day): the value returned, or the exception raised.
\* "WeatherEvent" is the base class, whose is_triggered raises NotImplementedError.
is_triggered(name, d) ==
    IF name = "WeatherEvent" THEN [raised |-> TRUE, error |-> "NotImplementedError"]
    ELSE [raised |-> FALSE,
          value  |-> CASE name = "RainEvent" -> RainEvent_is_triggered(d)
                       [] name = "SnowEvent" -> SnowEvent_is_triggered(d)
                       [] name = "MeltEvent" -> MeltEvent_is_triggered(d)
                       [] name = "MudEvent"  -> MudEvent_is_triggered(d)
                       [] name = "TemperatureDropEvent" ->
                              TemperatureDropEvent_is_triggered(d)
                       [] name = "DryWindowEvent" -> DryWindowEvent_is_triggered(d)]

\* det.get_message(day): the template (one per class) and the date put into it
get_message(name, d) == [template |-> name, date |-> Get(d, "date", "None")]

----------------------------------------------------------------------------
(* DetectorRegistry.run_all / WeatherAnalyzer.get_day_events *)

\* one detector applied inside the try/except of the batch
RunOne(name, d) ==
    LET r == is_triggered(name, d)
    IN  IF r.raised
          THEN [name |-> name, error |-> r.error]
          ELSE [name |-> name, triggered |-> r.value, message |-> get_message(name, d)]

\* (mutant) MudEvent.is_triggered records its verdict in the day it was given
DayAfter_MudMarksDay(name, d) ==
    IF name = "MudEvent" /\ MudEvent_is_triggered(d)
      THEN [k \in DOMAIN d \cup {"melt_flag"} |-> IF k = "melt_flag" THEN TRUE ELSE d[k]]
      ELSE d

\* the day dict after det.is_triggered(day) and det.get_message(day): the
\* methods only call day.get and assign nothing, neither to the day nor to self
DayAfter(name, d) == d

\* the day dict (one object, passed by reference) as the i-th detector of the
\* batch finds it
RECURSIVE DayBefore(_, _, _)
DayBefore(reg, d, i) ==
    IF i = 1 THEN d ELSE DayAfter(reg[i - 1], DayBefore(reg, d, i - 1))

\* the day dict after the whole batch
DayAfterAll(reg, d) == DayBefore(reg, d, Len(reg) + 1)

\* (mutant) no try/except around a detector: the first exception aborts the batch
run_all_Abort(reg, d) ==
    IF \E i \in 1..Len(reg) : is_triggered(reg[i], d).raised
      THEN [raised |-> TRUE, value |-> <<>>]
      ELSE [raised |-> FALSE, value |-> [i \in 1..Len(reg) |-> RunOne(reg[i], d)]]

\* the value returned to the caller; raised tells whether an exception escaped
run_all(reg, d) ==
    [raised |-> FALSE,
     value  |-> [i \in 1..Len(reg) |-> RunOne(reg[i], DayBefore(reg, d, i))]]

----------------------------------------------------------------------------
(* Forecast Normalizer: normalize(raw_samples) -> list of NormalizedDay *)

SlotsPerDay == 8

\* the calendar day a timestamp falls on (timestamps count 3-hour slots)
DayOfTs(dt) == dt \div SlotsPerDay

\* a sample without a usable timestamp is skipped
Usable(s) == "dt" \in DOMAIN s

\* round(a / n): to the nearest integer, halves to the even neighbour
RoundDiv(a, n) ==
    LET q == a \div n
        r == a % n
    IN  IF 2 * r < n THEN q
        ELSE IF 2 * r > n THEN q + 1
        ELSE IF q % 2 = 0 THEN q ELSE q + 1

RECURSIVE SumField(_, _)
SumField(ss, k) ==
    IF ss = <<>> THEN 0 ELSE Get(Head(ss), k, 0) + SumField(Tail(ss), k)

\* arithmetic mean of a field over the samples, rounded to one decimal
MeanField(ss, k) == RoundDiv(SumField(ss, k), Len(ss))

\* append the labels not yet seen, dropping empty ones
RECURSIVE AddLabels(_, _)
AddLabels(acc, labels) ==
    IF labels = <<>> THEN acc
    ELSE LET l == Head(labels)
             seen == \E i \in 1..Len(acc) : acc[i] = l
         IN  AddLabels(IF l = <<>> \/ seen THEN acc ELSE Append(acc, l), Tail(labels))

RECURSIVE UnionLabels(_)
UnionLabels(ss) ==
    IF ss = <<>> THEN <<>>
    ELSE AddLabels(UnionLabels(SubSeq(ss, 1, Len(ss) - 1)),
                   Get(ss[Len(ss)], "conditions", <<>>))

\* the group keys, ascending
RECURSIVE SortedKeys(_)
SortedKeys(keys) ==
    IF keys = {} THEN <<>>
    ELSE LET k == CHOOSE x \in keys : \A y \in keys : x <= y
         IN  <<k>> \o SortedKeys(keys \ {k})

GroupKeys(raw) == {DayOfTs(raw[i]["dt"]) : i \in {j \in 1..Len(raw) : Usable(raw[j])}}

GroupOf(raw, key) == SelectSeq(raw, LAMBDA s : Usable(s) /\ DayOfTs(s["dt"]) = key)

NoPrevious == [has |-> FALSE]

\* (mutant) the difference taken the wrong way round
TempDelta_Reversed(temp, prev) == RoundDiv(prev.temp - temp, 1)

\* round(this_avg - previous_avg, 1)
TempDelta(temp, prev) == RoundDiv(temp - prev.temp, 1)

\* one day's record, from its samples and the state carried from the day before
NormalizeDay(key, ss, prev) ==
    LET temp       == MeanField(ss, "temp")
        humidity   == MeanField(ss, "humidity")
        wind       == MeanField(ss, "wind")
        rain_prob  == IF SumField(ss, "precip") > 0 THEN 10 ELSE 0
        conditions == UnionLabels(ss)
        had_snow   == AnySnow(conditions)
        melt_flag  == prev.has /\ prev.had_snow /\ temp > 0
        base == [date |-> DateOf(key + 1), temp |-> temp, humidity |-> humidity,
                 wind |-> wind, conditions |-> conditions, rain_prob |-> rain_prob,
                 had_snow |-> had_snow, melt_flag |-> melt_flag,
                 mud_flag |-> (humidity >= 750 /\ rain_prob = 10) \/ melt_flag,
                 dry_window |-> rain_prob = 0 /\ humidity < 700]
    IN  IF prev.has
          THEN base @@ [temp_delta |-> TempDelta(temp, prev),
                        temp_drop  |-> TempDelta(temp, prev) <= -50]
          ELSE base @@ [temp_drop |-> FALSE]

\* a single left-to-right pass over the sorted keys
RECURSIVE NormalizePass(_, _, _)
NormalizePass(raw, keys, prev) ==
    IF keys = <<>> THEN <<>>
    ELSE LET d == NormalizeDay(Head(keys), GroupOf(raw, Head(keys)), prev)
         IN  <<d>> \o NormalizePass(raw, Tail(keys),
                          [has |-> TRUE, temp |-> d.temp, had_snow |-> d.had_snow])

normalize(raw) == NormalizePass(raw, SortedKeys(GroupKeys(raw)), NoPrevious)

----------------------------------------------------------------------------
(* Inputs of the normalizer and of the detector registry *)

SampleWeather ==
    { [humidity |-> 600, wind |-> 30, precip |-> 0, conditions |-> <<LClear>>],
      [humidity |-> 900, wind |-> 30, precip |-> 12, conditions |-> <<LRain>>],
      [humidity |-> 800, precip |-> 5, conditions |-> <<LSnow, <<>> >>] }

\* RawForecastSample records; the last one has no timestamp
Samples ==
    { [dt |-> t, temp |-> v] @@ w : t \in {1, 9}, v \in {-30, 10, 60}, w \in SampleWeather }
    \cup { [temp |-> 60, humidity |-> 500] }

\* day dicts as a caller may assemble them by hand (base_event.py: date, temp,
\* humidity, wind, conditions, rain_prob 0/1; temp_delta and melt_flag optional)
HandDays ==
    { [date |-> DateOf(1), temp |-> 200, temp_delta |-> -60, humidity |-> 500,
       wind |-> 20, conditions |-> <<LClear>>, rain_prob |-> 0],
      [date |-> DateOf(1), temp |-> 5, humidity |-> 760, wind |-> 20,
       conditions |-> <<LRain>>, rain_prob |-> 10],
      [date |-> DateOf(2), temp |-> 5, temp_delta |-> -49, humidity |-> 740,
       conditions |-> <<LClear>>, rain_prob |-> 10, melt_flag |-> TRUE],
      [date |-> DateOf(3), humidity |-> 690, rain_prob |-> 0],
      [date |-> DateOf(3), temp |-> 11, rain_prob |-> 10] }

\* registries: the six detectors in two orders, and one in which the base
\* class (whose evaluation raises) stands for one detector
Registries ==
    { <<"RainEvent", "SnowEvent", "MeltEvent", "MudEvent", "TemperatureDropEvent",
        "DryWindowEvent">>,
      <<"DryWindowEvent", "TemperatureDropEvent", "MudEvent", "MeltEvent",
        "SnowEvent", "RainEvent">>,
      <<"RainEvent", "SnowEvent", "MeltEvent", "WeatherEvent", "TemperatureDropEvent",
        "DryWindowEvent">> }

NoDay == [none |-> TRUE]

EventsIdle ==
    /\ raw_samples = <<>>
    /\ daily = <<>>
    /\ ev_pc = "input"
    /\ evt_day = NoDay
    /\ registry = <<>>
    /\ events = [raised |-> FALSE, value |-> <<>>]

----------------------------------------------------------------------------
(* services/weather/weather_api_client.py : WeatherAPIClient *)

\* Python None; a coroutine object (an `async def` called without await)
None == [none |-> TRUE]
Coroutine == [coroutine |-> TRUE]
EmptyDict == <<>>

IsNone(x) == "none" \in DOMAIN x
IsDict(x) == "none" \notin DOMAIN x /\ "coroutine" \notin DOMAIN x

\* `not x` for x a dict, None or a coroutine object
Falsy(x) == IsNone(x) \/ DOMAIN x = {}

LDrizzle == <<"D", "r", "i", "z", "z", "l", "e">>
LThunderstorm == <<"T", "h", "u", "n", "d", "e", "r", "s", "t", "o", "r", "m">>

\* the labels that set rain_probability to 100
RainyMain == {LRain, LDrizzle, LThunderstorm}

\* An item of raw_data['list'] is kept flat: dt = forecast['dt'],
\* temp = forecast['main']['temp'], humidity = forecast['main']['humidity'],
\* speed = forecast['wind']['speed'], weather = [w['main'] for w in
\* forecast['weather']], rain3h = forecast['rain']['3h'] (absent without 'rain').
\* dt counts 3-hour slots.

ItemWeather ==
    { [temp |-> 180, humidity |-> 600, speed |-> 0, weather |-> <<LClear>>],
      [temp |-> 60, humidity |-> 900, speed |-> 120, weather |-> <<LRain>>, rain3h |-> 12],
      [temp |-> -60, humidity |-> 840, speed |-> 60, weather |-> <<LSnow, LClear>>] }

\* items of a reply: three kinds of weather on two days; an item of a third
\* day without labels; one without 'main'; one without 'dt'
ApiItems ==
    { [dt |-> t] @@ w : t \in {2, 10}, w \in ItemWeather }
    \cup { [dt |-> 18, temp |-> 0, humidity |-> 600, speed |-> 60, weather |-> <<>>, rain3h |-> 3],
           [dt |-> 18, weather |-> <<LClear>>],
           [temp |-> 60, humidity |-> 600, speed |-> 60, weather |-> <<LClear>>] }

\* datetime.fromtimestamp(forecast['dt']).strftime('%Y-%m-%d')
forecast_date(f) == DateOf(f.dt \div SlotsPerDay + 1)

\* append the labels not yet in the list
RECURSIVE AppendNew(_, _)
AppendNew(acc, labels) ==
    IF labels = <<>> THEN acc
    ELSE AppendNew(IF \E i \in 1..Len(acc) : acc[i] = Head(labels)
                     THEN acc ELSE Append(acc, Head(labels)),
                   Tail(labels))

RECURSIVE DayConditions(_)
DayConditions(fs) ==
    IF fs = <<>> THEN <<>>
    ELSE AppendNew(DayConditions(SubSeq(fs, 1, Len(fs) - 1)), fs[Len(fs)].weather)

RECURSIVE SumOf(_)
SumOf(vals) == IF vals = <<>> THEN 0 ELSE Head(vals) + SumOf(Tail(vals))

\* sum(values) / len(values).  The item values drawn in ApiItems are multiples
\* of 60, so the quotient is exact for every group of up to five items.
Mean(vals) == SumOf(vals) \div Len(vals)

MinOf(vals) == CHOOSE x \in {vals[i] : i \in 1..Len(vals)} : \A j \in 1..Len(vals) : x <= vals[j]
MaxOf(vals) == CHOOSE x \in {vals[i] : i \in 1..Len(vals)} : \A j \in 1..Len(vals) : x >= vals[j]

\* the lookups of _process_daily_forecast that raise KeyError when they fail
ItemComplete(f) == {"temp", "humidity", "speed", "weather"} \subseteq DOMAIN f

DayRainProbability(fs) ==
    IF \E i \in 1..Len(fs) : \E j \in 1..Len(fs[i].weather) : fs[i].weather[j] \in RainyMain
      THEN 1000
    ELSE IF \E i \in 1..Len(fs) : "rain3h" \in DOMAIN fs[i] /\ fs[i].rain3h > 0
      THEN 300
    ELSE 0

\* WeatherAPIClient._process_daily_forecast; any exception gives {}
process_daily_forecast(date, fs) ==
    IF \E i \in 1..Len(fs) : ~ItemComplete(fs[i]) THEN EmptyDict
    ELSE LET temperatures == [i \in 1..Len(fs) |-> fs[i].temp]
             humidities   == [i \in 1..Len(fs) |-> fs[i].humidity]
             wind_speeds  == [i \in 1..Len(fs) |-> fs[i].speed]
         IN  [date |-> date,
              temp_avg |-> Mean(temperatures),
              temp_min |-> MinOf(temperatures),
              temp_max |-> MaxOf(temperatures),
              humidity_avg |-> Mean(humidities),
              wind_avg |-> Mean(wind_speeds),
              conditions |-> DayConditions(fs),
              rain_probability |-> DayRainProbability(fs),
              forecast_count |-> Len(fs)]

\* the keys of daily_forecasts (a defaultdict), in insertion order
RECURSIVE DictKeys(_)
DictKeys(list) ==
    IF list = <<>> THEN <<>>
    ELSE LET before == DictKeys(SubSeq(list, 1, Len(list) - 1))
             key    == forecast_date(list[Len(list)])
         IN  IF \E i \in 1..Len(before) : before[i] = key THEN before
             ELSE Append(before, key)

\* daily_forecasts[date]
DictValue(list, date) == SelectSeq(list, LAMBDA f : forecast_date(f) = date)

\* WeatherAPIClient._process_forecast_data; any exception (an item without
\* 'dt') gives {}
process_forecast_data(list, ndays) ==
    IF \E i \in 1..Len(list) : "dt" \notin DOMAIN list[i] THEN EmptyDict
    ELSE LET keys == Take(DictKeys(list), ndays)
         IN  [city |-> "Unknown", country |-> "Unknown",
              daily_data |-> [i \in 1..Len(keys) |->
                                process_daily_forecast(keys[i], DictValue(list, keys[i]))]]

\* days = max(1, min(days, 5))
ClampDays(ndays) ==
    LET m == IF ndays < 5 THEN ndays ELSE 5
    IN  IF m > 1 THEN m ELSE 1

\* the awaited value of WeatherAPIClient.get_forecast: data is the decoded
\* reply of _make_request, None when the request failed
get_forecast(data, ndays) ==
    IF ~Falsy(data) /\ "list" \in DOMAIN data
      THEN process_forecast_data(data.list, ClampDays(ndays))
      ELSE None

\* what a caller of api_client.get_forecast(city, days) holds: the awaited
\* value (SyncWeatherAPIClient) or, calling the coroutine function of
\* WeatherAPIClient without await, the coroutine object
api_client_get_forecast(data, ndays, awaited) ==
    IF awaited THEN get_forecast(data, ndays) ELSE Coroutine

----------------------------------------------------------------------------
(* core/weather_analyzer.py : WeatherAnalyzer *)

wash_thresholds ==
    [min_temperature |-> -20, max_humidity |-> 900, max_wind_speed |-> 120,
     max_rain_probability |-> 0, ideal_temperature_min |-> 100,
     ideal_temperature_max |-> 250, ideal_humidity_max |-> 750]

\* WeatherDay(...) as built in _process_weather_data, before scoring
WeatherDay(day_data) ==
    [date             |-> Get(day_data, "date", ""),
     temperature_avg  |-> Get(day_data, "temp_avg", 0),
     temperature_min  |-> Get(day_data, "temp_min", 0),
     temperature_max  |-> Get(day_data, "temp_max", 0),
     humidity_avg     |-> Get(day_data, "humidity_avg", 0),
     wind_speed_avg   |-> Get(day_data, "wind_avg", 0),
     conditions       |-> Get(day_data, "conditions", <<>>),
     rain_probability |-> Get(day_data, "rain_probability", 0)]

\* (mutant) the last line written `return score`, without max(0.0, min(100.0, score))
calculate_wash_score_NoClamp(day, th) ==
    LET rain_penalty == day.rain_probability * 2
        s1 == 1000 - (IF rain_penalty < 1000 THEN rain_penalty ELSE 1000)
        s2 == s1 - (IF day.temperature_avg < th.min_temperature THEN 800
                    ELSE IF day.temperature_avg < 0 THEN 600
                    ELSE IF day.temperature_avg < 50 THEN 300
                    ELSE IF day.temperature_avg < 100 THEN 150
                    ELSE 0)
        s3 == s2 - (IF day.humidity_avg > th.max_humidity THEN 500
                    ELSE IF day.humidity_avg > 850 THEN 250
                    ELSE IF day.humidity_avg > 750 THEN 100
                    ELSE 0)
        s4 == s3 - (IF day.wind_speed_avg > th.max_wind_speed THEN 400
                    ELSE IF day.wind_speed_avg > 80 THEN 200
                    ELSE IF day.wind_speed_avg > 50 THEN 50
                    ELSE 0)
        ideal_conditions ==
            /\ day.temperature_avg >= th.ideal_temperature_min
            /\ day.temperature_avg <= th.ideal_temperature_max
            /\ day.humidity_avg <= th.ideal_humidity_max
            /\ day.wind_speed_avg < 50
            /\ day.rain_probability = 0
        s5 == IF ideal_conditions THEN (IF s4 + 100 < 1000 THEN s4 + 100 ELSE 1000) ELSE s4
    IN  IF s1 <= 0 THEN 0
        ELSE IF s2 <= 0 THEN 0
        ELSE IF s3 <= 0 THEN 0
        ELSE s5

\* WeatherAnalyzer._calculate_wash_score (1000 is the program's 100.0)
calculate_wash_score(day, th) ==
    LET rain_penalty == day.rain_probability * 2
        s1 == 1000 - (IF rain_penalty < 1000 THEN rain_penalty ELSE 1000)
        s2 == s1 - (IF day.temperature_avg < th.min_temperature THEN 800
                    ELSE IF day.temperature_avg < 0 THEN 600
                    ELSE IF day.temperature_avg < 50 THEN 300
                    ELSE IF day.temperature_avg < 100 THEN 150
                    ELSE 0)
        s3 == s2 - (IF day.humidity_avg > th.max_humidity THEN 500
                    ELSE IF day.humidity_avg > 850 THEN 250
                    ELSE IF day.humidity_avg > 750 THEN 100
                    ELSE 0)
        s4 == s3 - (IF day.wind_speed_avg > th.max_wind_speed THEN 400
                    ELSE IF day.wind_speed_avg > 80 THEN 200
                    ELSE IF day.wind_speed_avg > 50 THEN 50
                    ELSE 0)
        ideal_conditions ==
            /\ day.temperature_avg >= th.ideal_temperature_min
            /\ day.temperature_avg <= th.ideal_temperature_max
            /\ day.humidity_avg <= th.ideal_humidity_max
            /\ day.wind_speed_avg < 50
            /\ day.rain_probability = 0
        s5 == IF ideal_conditions THEN (IF s4 + 100 < 1000 THEN s4 + 100 ELSE 1000) ELSE s4
    IN  IF s1 <= 0 THEN 0
        ELSE IF s2 <= 0 THEN 0
        ELSE IF s3 <= 0 THEN 0
        ELSE IF s5 < 0 THEN 0
        ELSE IF s5 > 1000 THEN 1000
        ELSE s5

\* WeatherAnalyzer._get_wash_recommendation_text
get_wash_recommendation_text(score) ==
    IF score >= 900 THEN "ideal"
    ELSE IF score >= 750 THEN "excellent"
    ELSE IF score >= 600 THEN "good"
    ELSE IF score >= 400 THEN "conditional"
    ELSE IF score >= 200 THEN "not_recommended"
    ELSE "unsuitable"

\* one WeatherDay with its wash_score and wash_recommendation
ScoredDay(day_data, th) ==
    LET day   == WeatherDay(day_data)
        score == calculate_wash_score(day, th)
    IN  [date |-> day.date, temperature_avg |-> day.temperature_avg,
         temperature_min |-> day.temperature_min,
         temperature_max |-> day.temperature_max,
         humidity_avg |-> day.humidity_avg, wind_speed_avg |-> day.wind_speed_avg,
         conditions |-> day.conditions, rain_probability |-> day.rain_probability,
         wash_score |-> score,
         wash_recommendation |-> get_wash_recommendation_text(score)]

\* WeatherAnalyzer._process_current_weather
process_current_weather(raw, daily_data, now) ==
    IF "current_weather" \in DOMAIN raw THEN raw.current_weather
    ELSE IF daily_data # <<>>
      THEN LET today == daily_data[1]
           IN  [temperature |-> today.temperature_avg,
                feels_like  |-> today.temperature_avg,
                humidity    |-> today.humidity_avg,
                pressure    |-> "1013.25",
                wind_speed  |-> today.wind_speed_avg,
                weather     |-> today.conditions,
                city        |-> Get(raw, "city", "Unknown"),
                timestamp   |-> now]
    ELSE EmptyDict

\* WeatherAnalyzer.__init__ with _process_weather_data: `'daily_data' in
\* self.raw_data` raises TypeError for None and for a coroutine object; the
\* exception is caught, which leaves daily_data and current_weather empty
WeatherAnalyzer(raw, now) ==
    IF ~IsDict(raw)
      THEN [raised |-> FALSE, raw_data |-> raw, daily_data |-> <<>>,
            current_weather |-> EmptyDict, wash_thresholds |-> wash_thresholds]
      ELSE LET daily_data ==
                   IF "daily_data" \in DOMAIN raw
                     THEN [i \in 1..Len(raw.daily_data) |->
                             ScoredDay(raw.daily_data[i], wash_thresholds)]
                     ELSE <<>>
           IN  [raised |-> FALSE, raw_data |-> raw, daily_data |-> daily_data,
                current_weather |-> process_current_weather(raw, daily_data, now),
                wash_thresholds |-> wash_thresholds]

\* (mutant) written without the loop over self.daily_data: the thresholds
\* change and the days keep the scores they had
update_thresholds_NoRescore(a, new_thresholds) ==
    LET th == [k \in DOMAIN a.wash_thresholds \cup DOMAIN new_thresholds |->
                 IF k \in DOMAIN new_thresholds THEN new_thresholds[k]
                 ELSE a.wash_thresholds[k]]
    IN  [a EXCEPT !.wash_thresholds = th]

\* WeatherAnalyzer.update_thresholds: dict.update, then every day is rescored
update_thresholds(a, new_thresholds) ==
    LET th == [k \in DOMAIN a.wash_thresholds \cup DOMAIN new_thresholds |->
                 IF k \in DOMAIN new_thresholds THEN new_thresholds[k]
                 ELSE a.wash_thresholds[k]]
        Rescored(day) ==
            LET score == calculate_wash_score(day, th)
            IN  [day EXCEPT !.wash_score = score,
                            !.wash_recommendation = get_wash_recommendation_text(score)]
    IN  [a EXCEPT !.wash_thresholds = th,
                  !.daily_data = [i \in 1..Len(a.daily_data) |-> Rescored(a.daily_data[i])]]

\* WeatherAnalyzer.get_daily_summary
get_daily_summary(a) ==
    [i \in 1..Len(a.daily_data) |->
        LET day == a.daily_data[i]
        IN  [date |-> day.date, temp |-> day.temperature_avg,
             temp_min |-> day.temperature_min, temp_max |-> day.temperature_max,
             humidity |-> day.humidity_avg, wind |-> day.wind_speed_avg,
             conditions |-> day.conditions, rain_prob |-> day.rain_probability,
             wash_score |-> day.wash_score,
             wash_recommendation |-> day.wash_recommendation]]

\* (mutant) written without the `if best_day.wash_score < 50: return None`
\* check, so that the best of the days scored 40 or more is always returned
get_best_wash_day_SuitableOnly(a) ==
    LET suitable == {i \in 1..Len(a.daily_data) : a.daily_data[i].wash_score >= 400}
    IN  IF a.daily_data = <<>> THEN None
        ELSE IF suitable = {} THEN None
        ELSE LET best == CHOOSE i \in suitable :
                            /\ \A j \in suitable :
                                  a.daily_data[j].wash_score <= a.daily_data[i].wash_score
                            /\ \A j \in suitable :
                                  j < i => a.daily_data[j].wash_score < a.daily_data[i].wash_score
                 best_day == a.daily_data[best]
             IN  [date |-> best_day.date, temp |-> best_day.temperature_avg,
                  humidity |-> best_day.humidity_avg, wind |-> best_day.wind_speed_avg,
                  conditions |-> best_day.conditions,
                  rain_prob |-> best_day.rain_probability,
                  wash_score |-> best_day.wash_score,
                  recommendation |-> best_day.wash_recommendation]

\* WeatherAnalyzer.get_best_wash_day; max() returns the first day of the
\* highest score
get_best_wash_day(a) ==
    LET suitable == {i \in 1..Len(a.daily_data) : a.daily_data[i].wash_score >= 400}
    IN  IF a.daily_data = <<>> THEN None
        ELSE IF suitable = {} THEN None
        ELSE LET best == CHOOSE i \in suitable :
                            /\ \A j \in suitable :
                                  a.daily_data[j].wash_score <= a.daily_data[i].wash_score
                            /\ \A j \in suitable :
                                  j < i => a.daily_data[j].wash_score < a.daily_data[i].wash_score
                 best_day == a.daily_data[best]
             IN  IF best_day.wash_score < 500 THEN None
                 ELSE [date |-> best_day.date, temp |-> best_day.temperature_avg,
                       humidity |-> best_day.humidity_avg, wind |-> best_day.wind_speed_avg,
                       conditions |-> best_day.conditions,
                       rain_prob |-> best_day.rain_probability,
                       wash_score |-> best_day.wash_score,
                       recommendation |-> best_day.wash_recommendation]

\* the alerts of one day, in the order get_weather_alerts appends them
DayAlertList(day, day_label) ==
    (IF day.rain_probability > 500
       THEN <<[alert |-> "heavy_rain", day_label |-> day_label, value |-> day.rain_probability]>>
     ELSE IF day.rain_probability > 200
       THEN <<[alert |-> "rain", day_label |-> day_label, value |-> day.rain_probability]>>
     ELSE <<>>)
    \o (IF day.temperature_min < -50
          THEN <<[alert |-> "hard_frost", day_label |-> day_label, value |-> day.temperature_min]>>
        ELSE IF day.temperature_min < 0
          THEN <<[alert |-> "frost", day_label |-> day_label, value |-> day.temperature_min]>>
        ELSE <<>>)
    \o (IF day.wind_speed_avg > 150
          THEN <<[alert |-> "very_strong_wind", day_label |-> day_label, value |-> day.wind_speed_avg]>>
        ELSE IF day.wind_speed_avg > 100
          THEN <<[alert |-> "strong_wind", day_label |-> day_label, value |-> day.wind_speed_avg]>>
        ELSE <<>>)
    \o (IF day.humidity_avg > 900
          THEN <<[alert |-> "humidity", day_label |-> day_label, value |-> day.humidity_avg]>>
        ELSE <<>>)

\* the list built by the loop over self.daily_data[:2]
AlertList(a) ==
    (IF Len(a.daily_data) >= 1 THEN DayAlertList(a.daily_data[1], "today") ELSE <<>>)
    \o (IF Len(a.daily_data) >= 2 THEN DayAlertList(a.daily_data[2], "tomorrow") ELSE <<>>)

\* list(set(alerts)): the distinct elements, in an order the hash seed of the
\* process decides
SetOrders(s) ==
    LET elems == {s[i] : i \in 1..Len(s)}
    IN  {p \in [1..Cardinality(elems) -> elems] :
            \A i, j \in 1..Cardinality(elems) : p[i] = p[j] => i = j}

\* WeatherAnalyzer.get_weather_alerts: the lists it may return
get_weather_alerts(a) == SetOrders(AlertList(a))

----------------------------------------------------------------------------
(* services/weather/weather_service.py : WeatherService *)

City == "Tula"

\* WeatherService.get_city_forecast, given what api_client.get_forecast
\* returned: the values it may return
get_city_forecast(fc, now) ==
    IF Falsy(fc) THEN {None}
    ELSE LET analyzer_ == WeatherAnalyzer(fc, now)
         IN  { [city |-> City,
                daily_summary |-> get_daily_summary(analyzer_),
                best_wash_day |-> get_best_wash_day(analyzer_),
                current_weather |-> analyzer_.current_weather,
                alerts |-> al,
                raw_data |-> fc] : al \in get_weather_alerts(analyzer_) }

----------------------------------------------------------------------------
(* utils/date_utils.py, utils/text_utils.py *)

\* the calendar days of the forecast, and the day a date string names;
\* strptime raises ValueError for any other string (the '' of a day without date)
ForecastDays == {f.dt \div SlotsPerDay + 1 : f \in {g \in ApiItems : "dt" \in DOMAIN g}}
IsDate(date) == \E n \in ForecastDays : DateOf(n) = date
DayNumber(date) == CHOOSE n \in ForecastDays : DateOf(n) = date

\* get_relative_day_label: (target_date - datetime.now()).days is the floor of
\* the difference in days, so a date counts as "today" when it is the day
\* after the clock's, unless the clock shows midnight exactly
get_relative_day_label(date, now) ==
    IF ~IsDate(date) THEN [label |-> "as_is", date |-> date]
    ELSE LET delta == (DayNumber(date) - now.day) - (IF now.midnight THEN 0 ELSE 1)
         IN  IF delta = 0 THEN [label |-> "today"]
             ELSE IF delta = 1 THEN [label |-> "tomorrow"]
             ELSE [label |-> "short_date", date |-> date]

\* translate_weather_conditions applied to a list of labels, as both message
\* builders do: an empty list gives "unknown", any other list raises
\* AttributeError at condition.lower()
TranslateRaises(conditions) == conditions # <<>>

----------------------------------------------------------------------------
(* services/notifications/message_builder.py : NotificationMessageBuilder *)

\* NotificationMessageBuilder._get_wash_recommendation
get_wash_recommendation(day) ==
    LET temp      == Get(day, "temp", 0)
        rain_prob == Get(day, "rain_prob", 0)
        humidity  == Get(day, "humidity", 0)
        wind      == Get(day, "wind", 0)
    IN  IF rain_prob = 0 /\ temp >= 100 /\ humidity <= 750 /\ wind < 80 THEN "ideal"
        ELSE IF rain_prob = 0 /\ temp >= 30 /\ humidity <= 850 /\ wind < 120 THEN "good"
        ELSE IF rain_prob = 0 /\ temp >= -20 /\ humidity <= 900
          THEN (IF temp < 30 THEN "cool"
                ELSE IF humidity > 850 THEN "slow_drying"
                ELSE IF wind >= 80 THEN "windy"
                ELSE "conditional")
        ELSE IF rain_prob > 0 THEN (IF temp > 0 THEN "rain_expected" ELSE "snow_expected")
        ELSE IF wind >= 120 THEN "strong_wind"
        ELSE IF humidity > 900 THEN "very_humid"
        ELSE IF temp < -20 THEN "ice"
        ELSE "complex"

\* NotificationMessageBuilder._get_weather_tips: the tips, in order
get_weather_tips(ds) ==
    LET count(P(_)) == Cardinality({i \in 1..Len(ds) : P(ds[i])})
        rainy(d)   == Get(d, "rain_prob", 0) > 0
        cold(d)    == Get(d, "temp", 0) < -20
        windy(d)   == Get(d, "wind", 0) >= 120
        good(d)    == /\ Get(d, "rain_prob", 0) = 0 /\ Get(d, "temp", 0) >= 30
                      /\ Get(d, "humidity", 0) <= 850 /\ Get(d, "wind", 0) < 120
        humid(d)   == Get(d, "humidity", 0) > 900
        perfect(d) == /\ Get(d, "rain_prob", 0) = 0 /\ Get(d, "temp", 0) >= 100
                      /\ Get(d, "humidity", 0) <= 750 /\ Get(d, "wind", 0) < 80
    IN  (IF count(rainy) >= 2 THEN <<"several_rainy_days">>
         ELSE IF count(rainy) = 1 THEN <<"rainy_day">> ELSE <<>>)
        \o (IF count(cold) > 0 THEN <<"ice_on_roads">> ELSE <<>>)
        \o (IF count(windy) > 0 THEN <<"dust">> ELSE <<>>)
        \o (IF count(good) >= 2 THEN <<"good_days">>
            ELSE IF count(good) = 1 THEN <<"one_good_day">> ELSE <<>>)
        \o (IF count(humid) > 0 THEN <<"slow_drying">> ELSE <<>>)
        \o (IF count(perfect) > 0 THEN <<"perfect">> ELSE <<>>)

\* the lines of the "best day" block both builders emit
BestDayLines(best_day, when) ==
    << [line |-> "recommend_wash"], [line |-> "when", value |-> when],
       [line |-> "temperature", value |-> best_day.temp],
       [line |-> "humidity", value |-> best_day.humidity],
       [line |-> "wind", value |-> best_day.wind],
       [line |-> "weather", value |-> "unknown"], [line |-> ""] >>

\* NotificationMessageBuilder.build_weather_notification
build_weather_notification(city, daily_summary, best_day, now) ==
    LET ds == Take(daily_summary, 3)
    IN  IF (~Falsy(best_day) /\ TranslateRaises(best_day.conditions))
           \/ \E i \in 1..Len(ds) : TranslateRaises(ds[i].conditions)
          THEN [raised |-> TRUE, error |-> "AttributeError"]
          ELSE
            [raised |-> FALSE,
             lines |->
                << [line |-> "title"], [line |-> ""], [line |-> "city", value |-> city],
                   [line |-> ""] >>
                \o (IF ~Falsy(best_day)
                      THEN BestDayLines(best_day, [label |-> "long_date", date |-> best_day.date])
                      ELSE << [line |-> "no_ideal_days"], [line |-> ""] >>)
                \o << [line |-> "forecast_3_days"], [line |-> ""] >>
                \o [i \in 1..Len(ds) |->
                      [line |-> "day", label |-> get_relative_day_label(ds[i].date, now),
                       status |-> get_wash_recommendation(ds[i]),
                       temp |-> ds[i].temp, humidity |-> ds[i].humidity,
                       wind |-> ds[i].wind, weather |-> "unknown"]]
                \o (IF get_weather_tips(ds) # <<>>
                      THEN << [line |-> "tips", value |-> get_weather_tips(ds)] >>
                      ELSE <<>>)
                \o << [line |-> "---"], [line |-> "signature"] >>]

----------------------------------------------------------------------------
(* services/notifications/recommendation_builder.py : RecommendationBuilder *)

\* RecommendationBuilder._get_wash_advice
get_wash_advice(day) ==
    LET temp      == Get(day, "temp", 0)
        rain_prob == Get(day, "rain_prob", 0)
        humidity  == Get(day, "humidity", 0)
        wind      == Get(day, "wind", 0)
    IN  IF rain_prob > 500 THEN "heavy_rain"
        ELSE IF rain_prob > 200 THEN "rain_possible"
        ELSE IF temp < -50 THEN "ice_on_body"
        ELSE IF temp < 0 THEN "water_may_freeze"
        ELSE IF temp > 250 THEN "dries_fast"
        ELSE IF wind > 100 THEN "windy"
        ELSE IF humidity > 850 THEN "humid"
        ELSE "ideal"

\* RecommendationBuilder._get_wash_tips: the tips joined into one line
get_wash_tips(ds) ==
    LET good_days == {i \in 1..Len(ds) : Get(ds[i], "rain_prob", 0) = 0}
        cold_days == {i \in 1..Len(ds) : Get(ds[i], "temp", 0) < 0}
    IN  (IF Cardinality(good_days) >= 2 THEN <<"good_days">>
         ELSE IF good_days # {} THEN <<"one_good_day">>
         ELSE <<"indoor_wash">>)
        \o (IF cold_days # {} THEN <<"heated_wash">> ELSE <<>>)

\* RecommendationBuilder.build_car_wash_recommendation(city, weather_data) for
\* a weather_data dict
build_car_wash_recommendation(city, wd, now) ==
    LET daily_summary == Get(wd, "daily_summary", <<>>)
        best_day      == Get(wd, "best_wash_day", None)
        ds            == Take(daily_summary, 3)
    IN  IF daily_summary = <<>>
          THEN [raised |-> FALSE, lines |-> << [line |-> "no_data", value |-> city] >>]
        ELSE IF (~Falsy(best_day) /\ TranslateRaises(best_day.conditions))
                \/ \E i \in 1..Len(ds) : TranslateRaises(ds[i].conditions)
          THEN [raised |-> TRUE, error |-> "AttributeError"]
        ELSE
            [raised |-> FALSE,
             lines |->
                << [line |-> "title"], [line |-> ""], [line |-> "city", value |-> city],
                   [line |-> ""] >>
                \o (IF ~Falsy(best_day)
                      THEN BestDayLines(best_day, get_relative_day_label(best_day.date, now))
                      ELSE << [line |-> "no_ideal_days"], [line |-> "indoor_wash"],
                              [line |-> ""] >>)
                \o << [line |-> "forecast_for_planning"], [line |-> ""] >>
                \o [i \in 1..Len(ds) |->
                      [line |-> "day", label |-> get_relative_day_label(ds[i].date, now),
                       status |-> get_wash_advice(ds[i]),
                       temp |-> ds[i].temp, humidity |-> ds[i].humidity,
                       wind |-> ds[i].wind, weather |-> "unknown"]]
                \o << [line |-> "tips", value |-> get_wash_tips(ds)] >>
                \o << [line |-> "---"], [line |-> "signature"] >>]

----------------------------------------------------------------------------
(* bots/telegram_bot.py : _send_wash_recommendation *)

\* (mutant) no reply when get_city_forecast gave nothing
send_wash_recommendation_Silent(city, wd, now) ==
    IF ~Falsy(wd)
      THEN LET m == build_weather_notification(city, wd.daily_summary,
                                               Get(wd, "best_wash_day", None), now)
           IN  IF m.raised
                 THEN [raised |-> FALSE, lines |-> << [line |-> "recommendation_error"] >>]
                 ELSE m
      ELSE [raised |-> FALSE, lines |-> <<>>]

\* the text replied by _send_wash_recommendation once get_city_forecast has
\* returned wd; an exception in the builder is caught and answered
send_wash_recommendation(city, wd, now) ==
    IF ~Falsy(wd)
      THEN LET m == build_weather_notification(city, wd.daily_summary,
                                               Get(wd, "best_wash_day", None), now)
           IN  IF m.raised
                 THEN [raised |-> FALSE, lines |-> << [line |-> "recommendation_error"] >>]
                 ELSE m
      ELSE [raised |-> FALSE, lines |-> << [line |-> "no_data_for_recommendation",
                                            value |-> city] >>]

----------------------------------------------------------------------------
(* State of the weather service before any call *)

NoAnalyzer == [none |-> TRUE]
NoMessage == [none |-> TRUE]

WeatherIdle ==
    /\ api_list = <<>>
    /\ api_days = 0
    /\ forecast = None
    /\ fc_pc = "input"
    /\ analyzer = NoAnalyzer
    /\ weather_data = None
    /\ message = NoMessage

----------------------------------------------------------------------------
(* services/recommendations : base.py, tires.py, roads.py *)
(* Temperatures, wind speeds and precipitation amounts are in tenths;      *)
(* visibility is in metres and times are in seconds, as in the program.    *)

cache_timeout == 3600

\* BaseRecommendationService._get_cache_key: f"{city}_{class name}"
get_cache_key(city, cls) == <<city, cls>>

\* (mutant) `if forecast:` forgotten: when the service gives nothing, whatever
\* the cache holds for the key is handed back
get_weather_data_StaleOnFailure(cache, city, cls, now, reply) ==
    LET cache_key == get_cache_key(city, cls)
    IN  IF cache_key \in DOMAIN cache /\ cache[cache_key].timestamp + cache_timeout > now
          THEN [forecast |-> cache[cache_key].data, cache |-> cache, queried |-> FALSE]
        ELSE IF IsNone(reply) /\ cache_key \in DOMAIN cache
          THEN [forecast |-> cache[cache_key].data, cache |-> cache, queried |-> TRUE]
        ELSE [forecast |-> reply,
              cache |-> IF IsNone(reply) THEN cache
                        ELSE [k \in DOMAIN cache \cup {cache_key} |->
                                IF k = cache_key THEN [data |-> reply, timestamp |-> now]
                                ELSE cache[k]],
              queried |-> TRUE]

\* BaseRecommendationService._get_weather_data. `reply` is what
\* weather_service.get_weather_forecast(city, days=3) returns if it is called;
\* `queried` tells whether it was called.
get_weather_data(cache, city, cls, now, reply) ==
    LET cache_key == get_cache_key(city, cls)
    IN  IF cache_key \in DOMAIN cache /\ cache[cache_key].timestamp + cache_timeout > now
          THEN [forecast |-> cache[cache_key].data, cache |-> cache, queried |-> FALSE]
        ELSE [forecast |-> reply,
              cache |-> IF IsNone(reply) THEN cache
                        ELSE [k \in DOMAIN cache \cup {cache_key} |->
                                IF k = cache_key THEN [data |-> reply, timestamp |-> now]
                                ELSE cache[k]],
              queried |-> TRUE]

\* WeatherForecast.get_today_forecast
get_today_forecast(fc) == IF fc.daily # <<>> THEN fc.daily[1] ELSE None

\* TireRecommendationService._analyze_tire_conditions
analyze_tire_conditions(fc) ==
    LET current_temp == fc.current.temperature
        today  == get_today_forecast(fc)
        season == IF current_temp < 50 THEN "winter"
                  ELSE IF current_temp > 150 THEN "summer"
                  ELSE "transition"
    IN  [season |-> season,
         change_recommended |-> season # "transition",
         pressure_recommendation |->
             IF current_temp < 0 THEN "frost"
             ELSE IF current_temp > 250 THEN "heat" ELSE "normal",
         service_recommendation |->
             IF ~IsNone(today) /\ today.precipitation_amount > 0
               THEN "not_today" ELSE "good",
         urgency |->
             IF (season = "winter" /\ current_temp < 0)
                  \/ (season = "summer" /\ current_temp > 200) THEN "high"
             ELSE IF (season = "winter" /\ current_temp < 30)
                  \/ (season = "summer" /\ current_temp > 150) THEN "medium"
             ELSE "low",
         current_temperature |-> current_temp]

\* RoadConditionService._get_road_risks: the list of risks, in the order of
\* the six tests
get_road_risks(fc) ==
    LET current == fc.current
        today   == get_today_forecast(fc)
        precip  == IF IsNone(today) THEN 0 ELSE today.precipitation_amount
    IN  (IF current.temperature < 20
              /\ (current.condition \in {"Rain", "Drizzle", "Freezing rain"} \/ precip > 0)
           THEN <<"black_ice">> ELSE <<>>)
     \o (IF current.condition = "Snow" \/ precip > 50 THEN <<"snow">> ELSE <<>>)
     \o (IF current.condition \in {"Rain", "Drizzle"} \/ precip > 0
           THEN <<"rain">> ELSE <<>>)
     \o (IF current.condition \in {"Fog", "Mist"} THEN <<"fog">> ELSE <<>>)
     \o (IF current.wind_speed > 100 THEN <<"strong_wind">> ELSE <<>>)
     \o (IF current.visibility < 1000 THEN <<"poor_visibility">> ELSE <<>>)

\* RoadConditionService._calculate_condition_score
calculate_condition_score(risks) ==
    IF risks = <<>> THEN 5
    ELSE IF Len(risks) = 1 THEN 4
    ELSE IF Len(risks) = 2 THEN 3
    ELSE IF Len(risks) = 3 THEN 2
    ELSE 1

\* (mutant) very poor visibility not looked at
get_danger_level_RisksOnly(risks, current_weather) ==
    IF risks = <<>> THEN "low"
    ELSE IF \E i \in 1..Len(risks) : risks[i] = "black_ice" THEN "high"
    ELSE IF Len(risks) >= 2 THEN "medium"
    ELSE "low"

\* RoadConditionService._get_danger_level
get_danger_level(risks, current_weather) ==
    IF risks = <<>> THEN "low"
    ELSE IF (\E i \in 1..Len(risks) : risks[i] = "black_ice")
              \/ current_weather.visibility < 500 THEN "high"
    ELSE IF Len(risks) >= 2 THEN "medium"
    ELSE "low"

\* RoadConditionService._analyze_road_conditions
analyze_road_conditions(fc) ==
    LET risks == get_road_risks(fc)
        today == get_today_forecast(fc)
    IN  [risks |-> risks,
         condition_score |-> calculate_condition_score(risks),
         danger_level |-> get_danger_level(risks, fc.current),
         current_temperature |-> fc.current.temperature,
         precipitation |-> IF IsNone(today) THEN 0 ELSE today.precipitation_amount,
         wind_speed |-> fc.current.wind_speed,
         visibility |-> fc.current.visibility]

\* get_recommendation of the two services, by what it returns: success and
\* data.analysis (the text is built from the analysis and is left out)
get_recommendation(cls, fc) ==
    IF IsNone(fc) THEN [success |-> FALSE, analysis |-> EmptyDict]
    ELSE [success  |-> TRUE,
          analysis |-> IF cls = "TireRecommendationService"
                         THEN analyze_tire_conditions(fc)
                         ELSE analyze_road_conditions(fc)]

\* WeatherData readings and ForecastDay lists the weather service may return
CurrentReadings ==
    { [temperature |-> 40,  condition |-> "Clear", wind_speed |-> 30,  visibility |-> 10000],
      [temperature |-> 10,  condition |-> "Rain",  wind_speed |-> 120, visibility |-> 4000],
      [temperature |-> 200, condition |-> "Fog",   wind_speed |-> 110, visibility |-> 300],
      [temperature |-> 180, condition |-> "Clear", wind_speed |-> 110, visibility |-> 700],
      [temperature |-> 120, condition |-> "Snow",  wind_speed |-> 0,   visibility |-> 10000] }

DailyLists ==
    { <<>>,
      << [temperature_min |-> 20, temperature_max |-> 60, precipitation_amount |-> 0],
         [temperature_min |-> 90, temperature_max |-> 210, precipitation_amount |-> 0],
         [temperature_min |-> 120, temperature_max |-> 220, precipitation_amount |-> 0] >>,
      << [temperature_min |-> -50, temperature_max |-> 10, precipitation_amount |-> 60],
         [temperature_min |-> -40, temperature_max |-> 30, precipitation_amount |-> 0] >> }

\* clear weather now with each of the day lists; rain, fog or snow now with
\* no day list
Forecasts ==
    {[current |-> c, daily |-> d] :
        c \in {r \in CurrentReadings : r.condition = "Clear"}, d \in DailyLists}
    \cup {[current |-> c, daily |-> <<>>] : c \in CurrentReadings}

Cities == {"Tula", "Omsk"}

ServiceClasses == {"TireRecommendationService", "RoadConditionService"}

\* the moments at which the clock is read
ClockValues == {0, 1800, 3599, 3600, 5400}

NoCall == [called |-> FALSE]

RecIdle ==
    /\ rec_class = "TireRecommendationService"
    /\ rec_cache = EmptyDict
    /\ rec_now = 0
    /\ rec_last = NoCall

----------------------------------------------------------------------------
(* services/notifications/notification_daemon.py : NotificationDaemon *)
(* Times of day are minutes after midnight; a notification_time is kept as *)
(* its characters.                                                          *)

\* datetime.strptime(text, '%H:%M').time(): the hour is `2[0-3]|[0-1]\d|\d`,
\* the minute `[0-5]\d|\d`, and the whole text has to match; ValueError
\* otherwise
strptime(text) ==
    LET Digit(ch) == CASE ch = "0" -> 0 [] ch = "1" -> 1 [] ch = "2" -> 2
                       [] ch = "3" -> 3 [] ch = "4" -> 4 [] ch = "5" -> 5
                       [] ch = "6" -> 6 [] ch = "7" -> 7 [] ch = "8" -> 8
                       [] ch = "9" -> 9 [] OTHER -> -1
        Number(s) ==
            IF Len(s) = 1 THEN Digit(s[1])
            ELSE IF Len(s) = 2 /\ Digit(s[1]) >= 0 /\ Digit(s[2]) >= 0
              THEN 10 * Digit(s[1]) + Digit(s[2])
            ELSE -1
        colons == {i \in 1..Len(text) : text[i] = ":"}
        at     == CHOOSE i \in colons : TRUE
        hour   == Number(SubSeq(text, 1, at - 1))
        minute == Number(SubSeq(text, at + 1, Len(text)))
    IN  IF Cardinality(colons) # 1 THEN [raised |-> TRUE]
        ELSE IF hour < 0 \/ hour > 23 \/ minute < 0 \/ minute > 59 THEN [raised |-> TRUE]
        ELSE [raised |-> FALSE, hour |-> hour, minute |-> minute]

\* NotificationDaemon._should_send_notification; `now` is datetime.now() as
\* [utc, local], both in minutes of the day
should_send_notification(user, now) ==
    LET user_time == IF user.timezone # 0
                       THEN (now.utc + 60 * user.timezone) % 1440
                       ELSE now.local
        notification_time == strptime(user.notification_time)
        difference == user_time - (notification_time.hour * 60 + notification_time.minute)
        time_diff == IF difference < 0 THEN -difference ELSE difference
    IN  IF notification_time.raised THEN FALSE ELSE time_diff <= 5

\* NotificationDaemon._send_weather_notification from its first line to its
\* first `await`, or to its end when NotificationMessageBuilder raises; wd
\* is the weather_data get_city_forecast returned: "none" for None,
\* "forecast", or "unusable" for a forecast the message builder raises on
send_weather_notification(task, st, wd) ==
    IF wd = "none"
      THEN [task |-> [task EXCEPT !.pc = "awaiting", !.sending = "error"], stats |-> st]
    ELSE IF wd = "unusable"
      THEN [task  |-> [task EXCEPT !.pc = "done", !.result = FALSE],
            stats |-> [st EXCEPT !.errors = @ + 1]]
    ELSE [task |-> [task EXCEPT !.pc = "awaiting", !.sending = "forecast"], stats |-> st]

\* (mutant) the counter raised before the message is awaited, so that a send
\* that raises is counted as well
send_message_returned_CountsAttempts(task, st, delivered) ==
    IF ~delivered
      THEN [task  |-> [task EXCEPT !.pc = "done", !.result = FALSE],
            stats |-> [st EXCEPT !.errors = @ + 1,
                                 !.notifications_sent =
                                     IF task.sending = "forecast" THEN @ + 1 ELSE @]]
    ELSE IF task.sending = "error"
      THEN [task |-> [task EXCEPT !.pc = "done", !.result = FALSE], stats |-> st]
    ELSE [task  |-> [task EXCEPT !.pc = "done", !.result = TRUE],
          stats |-> [st EXCEPT !.notifications_sent = @ + 1]]

\* NotificationDaemon._send_weather_notification from the return of the
\* awaited bot.send_message to its end; `delivered` is FALSE when the call
\* raised
send_message_returned(task, st, delivered) ==
    IF ~delivered
      THEN [task  |-> [task EXCEPT !.pc = "done", !.result = FALSE],
            stats |-> [st EXCEPT !.errors = @ + 1]]
    ELSE IF task.sending = "error"
      THEN [task |-> [task EXCEPT !.pc = "done", !.result = FALSE], stats |-> st]
    ELSE [task  |-> [task EXCEPT !.pc = "done", !.result = TRUE],
          stats |-> [st EXCEPT !.notifications_sent = @ + 1]]

\* rows of the users table with notifications_enabled = 1
Subscribers ==
    { [user_id |-> 1, city |-> "Tula", timezone |-> 0,
       notification_time |-> <<"2", "3", ":", "5", "8">>],
      [user_id |-> 2, city |-> "Omsk", timezone |-> 0,
       notification_time |-> <<"0", "0", ":", "0", "1">>],
      [user_id |-> 3, city |-> "Tula", timezone |-> 0,
       notification_time |-> <<"2", "3", ":", "5", "5">>],
      [user_id |-> 4, city |-> "Omsk", timezone |-> 0,
       notification_time |-> <<"2", "4", ":", "0", "0">>],
      [user_id |-> 5, city |-> "Perm", timezone |-> 5,
       notification_time |-> <<"2", ":", "0", "0">>] }

\* readings of datetime.now(): the server's clock is 3 hours ahead of UTC
Clocks ==
    { [utc |-> (m + 1440 - 180) % 1440, local |-> m] : m \in {1, 6, 7, 1438} }

(* services/daemon/weather_daemon.py : run_daemon *)

\* lists of at most n distinct rows
ListsOf(rows, n) ==
    UNION { { s \in [1..k -> rows] : \A i, j \in 1..k : s[i] = s[j] => i = j } : k \in 0..n }

DaemonIdle ==
    /\ daemon = "none"
    /\ wd_pc = "check"
    /\ users = <<>>
    /\ attempted = <<>>
    /\ success_count = 0
    /\ subscribers = <<>>
    /\ clock = [utc |-> 0, local |-> 0]
    /\ nd_pc = "idle"
    /\ tasks = <<>>
    /\ stats = [notifications_sent |-> 0, errors |-> 0, last_run |-> None]
    /\ cycle = [started |-> 0]

----------------------------------------------------------------------------
(* Callers of RecommendationEngine.build_forecast_summary *)

\* DayData dicts (total=False: any key may be absent); the caller adds the date
EngineDays ==
    { [rain_prob |-> 10],
      [dry_window |-> TRUE, rain_prob |-> 0, humidity |-> 600, wind |-> 30, temp |-> 180],
      [mud_flag |-> TRUE],
      [dry_window |-> TRUE, rain_prob |-> 0, humidity |-> 950, wind_speed |-> 160,
       temp |-> -30, temp_drop |-> TRUE],
      [dry_window |-> TRUE, rain_prob |-> 1, mud_flag |-> FALSE, temp_drop |-> TRUE],
      [rain_prob |-> 3, dry_hours |-> 60, mud_flag |-> FALSE],
      [rain_prob |-> 10, conditions |-> <<LSnow>>, mud_flag |-> TRUE, humidity |-> 800,
       ice_risk |-> TRUE],
      [dry_window |-> FALSE, rain_prob |-> 0, sunny_hours |-> 70, temp |-> 200,
       conditions |-> <<LClear>>],
      [mud_flag |-> TRUE, rain_prob |-> 5, storm_risk |-> TRUE, conditions |-> <<LRain>>],
      [dry_window |-> TRUE, rain_prob |-> 0, pollen_level |-> 80, humidity |-> 900,
       wind_speed |-> 60, confidence |-> 5],
      [dry_window |-> TRUE, rain_prob |-> 4, dry_hours |-> 30] }

\* events_by_day dicts: date -> list of event records
EventChoices ==
    { <<>>,
      [dt \in {DateOf(1), DateOf(2)} |->
          IF dt = DateOf(1)
            THEN <<[name |-> "RainEvent", message |-> "rain expected"]>>
            ELSE <<[name |-> "DryWindowEvent", message |-> "dry window"],
                   [name |-> "MudEvent", error |-> "TypeError"]>>] }

WithDate(d, date) ==
    [k \in DOMAIN d \cup {"date"} |-> IF k = "date" THEN date ELSE d[k]]

NoSummary == [called |-> FALSE]

EngineIdle ==
    /\ days = <<>>
    /\ events_by_day = <<>>
    /\ summary = NoSummary

EngineInit == EngineIdle /\ EventsIdle /\ WeatherIdle /\ RecIdle /\ DaemonIdle

\* the caller appends one more normalized day to the list it will pass
AddDay(d) ==
    /\ summary = NoSummary
    /\ Len(days) < MaxDays
    /\ days' = Append(days, WithDate(d, DateOf(Len(days) + 1)))
    /\ UNCHANGED <<events_by_day, summary>>
    /\ UNCHANGED <<eventVars, weatherVars, recVars, daemonVars>>

\* the caller appends a day dict with no key at all, not even the date
AddEmptyDay ==
    /\ summary = NoSummary
    /\ Len(days) < MaxDays
    /\ days' = Append(days, EmptyDict)
    /\ UNCHANGED <<events_by_day, summary>>
    /\ UNCHANGED <<eventVars, weatherVars, recVars, daemonVars>>

\* engine.build_forecast_summary(days, events_by_day)
BuildForecastSummary(ev) ==
    /\ summary = NoSummary
    /\ events_by_day' = ev
    /\ summary' = build_forecast_summary(days, ev)
    /\ UNCHANGED days
    /\ UNCHANGED <<eventVars, weatherVars, recVars, daemonVars>>

EngineNext ==
    \/ \E d \in EngineDays : AddDay(d)
    \/ AddEmptyDay
    \/ \E ev \in EventChoices : BuildForecastSummary(ev)

SpecEngine == EngineInit /\ [][EngineNext]_vars

----------------------------------------------------------------------------
(* Normalizer and detector registry as used by WeatherAnalyzer *)

EventsInit == EventsIdle /\ EngineIdle /\ WeatherIdle /\ RecIdle /\ DaemonIdle

\* one more 3-hour sample arrives, in any order
AddSample(s) ==
    /\ ev_pc = "input"
    /\ Len(raw_samples) < MaxSamples
    /\ raw_samples' = Append(raw_samples, s)
    /\ UNCHANGED <<daily, ev_pc, evt_day, registry, events>>
    /\ UNCHANGED <<engineVars, weatherVars, recVars, daemonVars>>

\* wa = WeatherAnalyzer(sample): wa.daily = normalize(raw samples)
Normalize ==
    /\ ev_pc = "input"
    /\ daily' = normalize(raw_samples)
    /\ ev_pc' = "normalized"
    /\ UNCHANGED <<raw_samples, evt_day, registry, events>>
    /\ UNCHANGED <<engineVars, weatherVars, recVars, daemonVars>>

\* wa.get_day_events(d) for a day d of wa.daily
GetDayEvents(i, reg) ==
    /\ ev_pc = "normalized"
    /\ i \in 1..Len(daily)
    /\ evt_day' = DayAfterAll(reg, daily[i])
    /\ daily' = [daily EXCEPT ![i] = DayAfterAll(reg, daily[i])]
    /\ registry' = reg
    /\ events' = run_all(reg, daily[i])
    /\ ev_pc' = "evaluated"
    /\ UNCHANGED raw_samples
    /\ UNCHANGED <<engineVars, weatherVars, recVars, daemonVars>>

\* run_all(d) for a day dict assembled by the caller
RunAllOnDay(d, reg) ==
    /\ ev_pc = "input"
    /\ raw_samples = <<>>
    /\ evt_day' = DayAfterAll(reg, d)
    /\ registry' = reg
    /\ events' = run_all(reg, d)
    /\ ev_pc' = "evaluated"
    /\ UNCHANGED <<raw_samples, daily>>
    /\ UNCHANGED <<engineVars, weatherVars, recVars, daemonVars>>

EventsNext ==
    \/ \E s \in Samples : AddSample(s)
    \/ Normalize
    \/ \E i \in 1..MaxSamples, reg \in Registries : GetDayEvents(i, reg)
    \/ \E d \in HandDays, reg \in Registries : RunAllOnDay(d, reg)

SpecEvents == EventsInit /\ [][EventsNext]_vars

----------------------------------------------------------------------------
(* The weather service as its callers drive it *)

\* the `days` argument of get_forecast
DaysArgs == {0, 2, 6}

\* datetime.now(): the day and whether the clock shows midnight exactly
Times == { [day |-> 1, midnight |-> FALSE], [day |-> 0, midnight |-> TRUE] }

WeatherInit == WeatherIdle /\ EngineIdle /\ EventsIdle /\ RecIdle /\ DaemonIdle

\* the reply of the weather provider grows by one 3-hour item
AddListItem(f) ==
    /\ fc_pc = "input"
    /\ Len(api_list) < MaxItems
    /\ api_list' = Append(api_list, f)
    /\ UNCHANGED <<api_days, forecast, fc_pc, analyzer, weather_data, message>>
    /\ UNCHANGED <<engineVars, eventVars, recVars, daemonVars>>

\* the decoded reply of _make_request: None when the request failed
ApiReply(ok) == IF ok THEN [list |-> api_list] ELSE None

\* forecast = client.get_forecast(city, days)
GetForecast(ndays, ok, awaited) ==
    /\ fc_pc = "input"
    /\ api_days' = ndays
    /\ forecast' = api_client_get_forecast(ApiReply(ok), ndays, awaited)
    /\ fc_pc' = "received"
    /\ UNCHANGED <<api_list, analyzer, weather_data, message>>
    /\ UNCHANGED <<engineVars, eventVars, recVars, daemonVars>>

\* analyzer = WeatherAnalyzer(forecast)
NewAnalyzer(now) ==
    /\ fc_pc = "received"
    /\ analyzer' = WeatherAnalyzer(forecast, now)
    /\ fc_pc' = "analyzed"
    /\ UNCHANGED <<api_list, api_days, forecast, weather_data, message>>
    /\ UNCHANGED <<engineVars, eventVars, recVars, daemonVars>>

\* new_thresholds dicts handed to update_thresholds (values x10)
ThresholdUpdates ==
    { [max_wind_speed |-> 50],
      [max_wind_speed |-> 20],
      [min_temperature |-> 200, max_humidity |-> 500],
      [ideal_temperature_min |-> -100, ideal_humidity_max |-> 1000] }

\* analyzer.update_thresholds(new_thresholds)
UpdateThresholds(new_thresholds) ==
    /\ fc_pc = "analyzed"
    /\ analyzer' = update_thresholds(analyzer, new_thresholds)
    /\ analyzer' # analyzer
    /\ UNCHANGED <<api_list, api_days, forecast, fc_pc, weather_data, message>>
    /\ UNCHANGED <<engineVars, eventVars, recVars, daemonVars>>

\* weather_data = weather_service.get_city_forecast(city, days)
GetCityForecast(ndays, ok, awaited, now) ==
    /\ fc_pc = "input"
    /\ api_days' = ndays
    /\ forecast' = api_client_get_forecast(ApiReply(ok), ndays, awaited)
    /\ weather_data' \in get_city_forecast(forecast', now)
    /\ fc_pc' = "fetched"
    /\ UNCHANGED <<api_list, analyzer, message>>
    /\ UNCHANGED <<engineVars, eventVars, recVars, daemonVars>>

\* RecommendationBuilder.build_car_wash_recommendation(city, weather_data) on
\* the dict get_city_forecast returned
BuildCarWashRecommendation(now) ==
    /\ fc_pc = "fetched"
    /\ ~IsNone(weather_data)
    /\ message' = build_car_wash_recommendation(City, weather_data, now)
    /\ fc_pc' = "built"
    /\ UNCHANGED <<api_list, api_days, forecast, analyzer, weather_data>>
    /\ UNCHANGED <<engineVars, eventVars, recVars, daemonVars>>

\* TelegramBot._send_wash_recommendation: get_city_forecast(city, days=3) and
\* the reply
SendWashRecommendation(ok, awaited, now) ==
    /\ fc_pc = "input"
    /\ api_days' = 3
    /\ forecast' = api_client_get_forecast(ApiReply(ok), 3, awaited)
    /\ weather_data' \in get_city_forecast(forecast', now)
    /\ message' = send_wash_recommendation(City, weather_data', now)
    /\ fc_pc' = "sent"
    /\ UNCHANGED <<api_list, analyzer>>
    /\ UNCHANGED <<engineVars, eventVars, recVars, daemonVars>>

WeatherNext ==
    \/ \E f \in ApiItems : AddListItem(f)
    \/ \E n \in DaysArgs, ok \in BOOLEAN, awaited \in BOOLEAN : GetForecast(n, ok, awaited)
    \/ \E now \in Times : NewAnalyzer(now)
    \/ \E th \in ThresholdUpdates : UpdateThresholds(th)
    \/ \E n \in DaysArgs, ok \in BOOLEAN, awaited \in BOOLEAN, now \in Times :
          GetCityForecast(n, ok, awaited, now)
    \/ \E now \in Times : BuildCarWashRecommendation(now)
    \/ \E ok \in BOOLEAN, awaited \in BOOLEAN, now \in Times :
          SendWashRecommendation(ok, awaited, now)

SpecWeather == WeatherInit /\ [][WeatherNext]_vars

----------------------------------------------------------------------------
(* The recommendation services as the bot drives them *)

\* a service instance of either class, its cache empty
RecInit ==
    /\ rec_class \in ServiceClasses
    /\ rec_cache = EmptyDict
    /\ rec_now = 0
    /\ rec_last = NoCall
    /\ EngineIdle /\ EventsIdle /\ WeatherIdle /\ DaemonIdle

\* time passes
Tick(t) ==
    /\ t > rec_now
    /\ rec_now' = t
    /\ UNCHANGED <<rec_class, rec_cache, rec_last>>
    /\ UNCHANGED <<engineVars, eventVars, weatherVars, daemonVars>>

\* service.get_recommendation(city), the weather service answering `reply`
\* if it is asked
GetRecommendation(city, reply) ==
    LET got == get_weather_data(rec_cache, city, rec_class, rec_now, reply)
    IN  /\ rec_cache' = got.cache
        /\ rec_last' = [called |-> TRUE, city |-> city, at |-> rec_now,
                        queried |-> got.queried, forecast |-> got.forecast,
                        result |-> get_recommendation(rec_class, got.forecast)]
        /\ UNCHANGED <<rec_class, rec_now>>
        /\ UNCHANGED <<engineVars, eventVars, weatherVars, daemonVars>>

RecNext ==
    \/ \E t \in ClockValues : Tick(t)
    \/ \E city \in Cities, reply \in Forecasts \cup {None} : GetRecommendation(city, reply)

SpecRecommendations == RecInit /\ [][RecNext]_vars

----------------------------------------------------------------------------
(* The two notification daemons, each a process of its own *)

MaxSubscribers == 2
MaxCycles == 2

DaemonInit ==
    /\ daemon \in {"weather_daemon", "notification_daemon"}
    /\ wd_pc = "check"
    /\ users = <<>>
    /\ attempted = <<>>
    /\ success_count = 0
    /\ subscribers \in (IF daemon = "notification_daemon"
                          THEN ListsOf(Subscribers, MaxSubscribers) ELSE {<<>>})
    /\ clock = [utc |-> 0, local |-> 0]
    /\ nd_pc = "idle"
    /\ tasks = <<>>
    /\ stats = [notifications_sent |-> 0, errors |-> 0, last_run |-> None]
    /\ cycle = [started |-> 0]
    /\ EngineIdle /\ EventsIdle /\ WeatherIdle /\ RecIdle

\* run_daemon, top of the loop: get_interval() and get_all_active_users()
\* returned
CheckSubscribers(active) ==
    /\ daemon = "weather_daemon"
    /\ wd_pc = "check"
    /\ users' = active
    /\ attempted' = <<>>
    /\ success_count' = 0
    /\ wd_pc' = "send"
    /\ UNCHANGED <<daemon, subscribers, clock, nd_pc, tasks, stats, cycle>>
    /\ UNCHANGED <<engineVars, eventVars, weatherVars, recVars>>

\* run_daemon, the body of `for user in users`: send_recommendation returned
\* True or False, or something in the try block raised
SendRecommendation(outcome) ==
    /\ daemon = "weather_daemon"
    /\ wd_pc = "send"
    /\ Len(attempted) < Len(users)
    /\ attempted' = Append(attempted,
                           [chat_id |-> users[Len(attempted) + 1].chat_id,
                            outcome |-> outcome])
    /\ success_count' = IF outcome = "sent" THEN success_count + 1 ELSE success_count
    /\ UNCHANGED <<daemon, wd_pc, users, subscribers, clock, nd_pc, tasks, stats, cycle>>
    /\ UNCHANGED <<engineVars, eventVars, weatherVars, recVars>>

\* run_daemon, after the for loop: time.sleep(interval_hours * 3600) and the
\* next pass of `while True`
SleepInterval ==
    /\ daemon = "weather_daemon"
    /\ wd_pc = "send"
    /\ Len(attempted) = Len(users)
    /\ wd_pc' = "check"
    /\ UNCHANGED <<daemon, users, attempted, success_count, subscribers, clock, nd_pc,
                   tasks, stats, cycle>>
    /\ UNCHANGED <<engineVars, eventVars, weatherVars, recVars>>

\* run_daemon: get_interval() or the subscriber database raises, or
\* interval_hours is not a number when the sleep is computed; control passes
\* to the `except Exception` of the try that encloses the while loop
CriticalError ==
    /\ daemon = "weather_daemon"
    /\ \/ wd_pc = "check"
       \/ wd_pc = "send" /\ Len(attempted) = Len(users)
    /\ wd_pc' = "recover"
    /\ UNCHANGED <<daemon, users, attempted, success_count, subscribers, clock, nd_pc,
                   tasks, stats, cycle>>
    /\ UNCHANGED <<engineVars, eventVars, weatherVars, recVars>>

\* run_daemon, the except clause: time.sleep(300) is its last statement, the
\* function returns and the script ends
RecoverySleep ==
    /\ daemon = "weather_daemon"
    /\ wd_pc = "recover"
    /\ wd_pc' = "returned"
    /\ UNCHANGED <<daemon, users, attempted, success_count, subscribers, clock, nd_pc,
                   tasks, stats, cycle>>
    /\ UNCHANGED <<engineVars, eventVars, weatherVars, recVars>>

\* NotificationDaemon.process_scheduled_notifications up to asyncio.gather;
\* _get_subscribed_users returns [] on sqlite3.Error, `now` is the reading of
\* datetime.now()
ProcessScheduledNotifications(db_ok, now) ==
    /\ daemon = "notification_daemon"
    /\ nd_pc = "idle"
    /\ cycle.started < MaxCycles
    /\ LET rows == IF db_ok THEN subscribers ELSE <<>>
           due  == SelectSeq(rows, LAMBDA user : should_send_notification(user, now))
       IN  /\ cycle' = [started |-> cycle.started + 1, users |-> rows, at |-> now,
                        stats |-> stats]
           /\ tasks' = [i \in 1..Len(due) |->
                          [user |-> due[i], pc |-> "created", sending |-> "nothing",
                           result |-> FALSE]]
           /\ nd_pc' = IF due = <<>> THEN "idle" ELSE "gather"
           /\ clock' = now
           /\ stats' = IF rows # <<>> /\ due = <<>>
                         THEN [stats EXCEPT !.last_run = now] ELSE stats
    /\ UNCHANGED <<daemon, wd_pc, users, attempted, success_count, subscribers>>
    /\ UNCHANGED <<engineVars, eventVars, weatherVars, recVars>>

\* a coroutine of the gather runs from its start to its first await
TaskRuns(i, wd) ==
    /\ daemon = "notification_daemon"
    /\ nd_pc = "gather"
    /\ tasks[i].pc = "created"
    /\ LET ran == send_weather_notification(tasks[i], stats, wd)
       IN  /\ tasks' = [tasks EXCEPT ![i] = ran.task]
           /\ stats' = ran.stats
    /\ UNCHANGED <<daemon, wd_pc, users, attempted, success_count, subscribers, clock,
                   nd_pc, cycle>>
    /\ UNCHANGED <<engineVars, eventVars, weatherVars, recVars>>

\* the bot.send_message a coroutine awaits returns or raises, and the
\* coroutine runs to its end
SendMessageReturns(i, delivered) ==
    /\ daemon = "notification_daemon"
    /\ nd_pc = "gather"
    /\ tasks[i].pc = "awaiting"
    /\ LET ran == send_message_returned(tasks[i], stats, delivered)
       IN  /\ tasks' = [tasks EXCEPT ![i] = ran.task]
           /\ stats' = ran.stats
    /\ UNCHANGED <<daemon, wd_pc, users, attempted, success_count, subscribers, clock,
                   nd_pc, cycle>>
    /\ UNCHANGED <<engineVars, eventVars, weatherVars, recVars>>

\* asyncio.gather returns once every coroutine has ended;
\* process_scheduled_notifications stamps last_run with datetime.now() and
\* returns
GatherReturns(now) ==
    /\ daemon = "notification_daemon"
    /\ nd_pc = "gather"
    /\ \A i \in 1..Len(tasks) : tasks[i].pc = "done"
    /\ stats' = [stats EXCEPT !.last_run = now]
    /\ clock' = now
    /\ nd_pc' = "idle"
    /\ UNCHANGED <<daemon, wd_pc, users, attempted, success_count, subscribers, tasks,
                   cycle>>
    /\ UNCHANGED <<engineVars, eventVars, weatherVars, recVars>>

DaemonNext ==
    \/ \E active \in ListsOf({[chat_id |-> 11, city |-> "Tula"],
                              [chat_id |-> 12, city |-> "Omsk"],
                              [chat_id |-> 13, city |-> "Perm"]}, MaxSubscribers) :
          CheckSubscribers(active)
    \/ \E outcome \in {"sent", "failed", "raised"} : SendRecommendation(outcome)
    \/ SleepInterval
    \/ CriticalError
    \/ RecoverySleep
    \/ \E db_ok \in BOOLEAN, now \in Clocks : ProcessScheduledNotifications(db_ok, now)
    \/ \E i \in 1..Len(tasks), wd \in {"none", "forecast", "unusable"} : TaskRuns(i, wd)
    \/ \E i \in 1..Len(tasks), delivered \in BOOLEAN : SendMessageReturns(i, delivered)
    \/ \E now \in Clocks : GatherReturns(now)

SpecDaemons == DaemonInit /\ [][DaemonNext]_vars

\* a running process keeps taking its steps: sleeps end, awaited calls
\* return or raise
SpecDaemonsFair == SpecDaemons /\ WF_vars(DaemonNext)

----------------------------------------------------------------------------
(* Properties of RecommendationEngine *)

Summarized == summary # NoSummary

\* the days of the list that carry a given date
DaysDated(date) == {i \in 1..Len(days) : Get(days[i], "date", "") = date}

\* C1: _find_best_wash_days (the best_days field) returns at most 3 dates,
\* however many days qualify, and every returned date belongs to a day whose
\* points score is at least 5.
C1_BestDaysCap ==
    Summarized =>
        /\ Len(summary.best_days) <= 3
        /\ \A i \in 1..Len(summary.best_days) :
              \E j \in DaysDated(summary.best_days[i]) : WashPoints(days[j]) >= 5

\* C1 witness: more than three days qualify and three dates are returned
C1_Witness ==
    /\ Summarized
    /\ Cardinality({j \in 1..Len(days) : WashPoints(days[j]) >= 5}) > 3
    /\ Len(summary.best_days) = 3

\* The 3-day forecast of concrete scenario 1; each day carries the fields the
\* scenario names and nothing else.
ScenarioDays ==
    << WithDate([rain_prob |-> 10], DateOf(1)),
       WithDate([dry_window |-> TRUE, rain_prob |-> 0, humidity |-> 600,
                 wind |-> 30, temp |-> 180], DateOf(2)),
       WithDate([mud_flag |-> TRUE], DateOf(3)) >>

AlertsFor(date) == {i \in 1..Len(summary.alerts) : summary.alerts[i].date = date}

ScenarioCommon ==
    /\ summary.wash_advice.kind = "excellent_one"
    /\ summary.wash_advice.dates = <<DateOf(2)>>
    /\ summary.best_days = <<DateOf(2)>>
    /\ AlertsFor(DateOf(2)) = {}

\* C10 as stated: in scenario 1 wash_advice names day 2 as excellent, best_days
\* is [day 2], day 2 has no alert and day 3 has at least one (mud-related) alert.
C10_Original ==
    (Summarized /\ days = ScenarioDays) =>
        /\ ScenarioCommon
        /\ AlertsFor(DateOf(3)) # {}

\* C10 amended: in scenario 1 wash_advice names day 2 as excellent, best_days
\* is [day 2], day 2 has no alert, and day 3 has no alert either: the mud of
\* day 3 is reported by mud_risk, which names day 3 and only day 3.
C10_Scenario ==
    (Summarized /\ days = ScenarioDays) =>
        /\ ScenarioCommon
        /\ summary.alerts = <<>>
        /\ summary.mud_risk = [level |-> "low", dates |-> <<DateOf(3)>>]

C10_Witness == Summarized /\ days = ScenarioDays

\* day j of the list ranks before day k: higher score, or equal score and
\* earlier in the list
RanksBefore(j, k) ==
    \/ WashPoints(days[j]) > WashPoints(days[k])
    \/ WashPoints(days[j]) = WashPoints(days[k]) /\ j < k

Qualifying == {j \in 1..Len(days) : WashPoints(days[j]) >= 5}

\* f names, for each returned date, the day of the list it stands for
Ranking(f) ==
    /\ \A i \in DOMAIN f :
          /\ f[i] \in Qualifying
          /\ Get(days[f[i]], "date", "") = summary.best_days[i]
    /\ \A i, k \in DOMAIN f : i < k => RanksBefore(f[i], f[k])
    /\ \A j \in Qualifying :
          (\A i \in DOMAIN f : f[i] # j) =>
              /\ Len(summary.best_days) = 3
              /\ \A i \in DOMAIN f : RanksBefore(f[i], j)

\* C17: the dates _find_best_wash_days returns are in non-increasing order of
\* points score; of two days with the same score the one earlier in the input
\* list comes first (the sort is stable); a day scoring at least 5 is left out
\* only when three days ranking before it are returned.
C17_BestDaysRanking ==
    Summarized =>
        \E f \in [1..Len(summary.best_days) -> 1..Len(days)] : Ranking(f)

\* C17 witness: four days qualify, two of the three returned tie and keep
\* their list order, and the day left out ties with the last one returned
C17_Witness ==
    /\ Summarized
    /\ Cardinality(Qualifying) = 4
    /\ Len(summary.best_days) = 3
    /\ \E a, b, c, d \in Qualifying :
          /\ a < b /\ c < d
          /\ WashPoints(days[b]) > WashPoints(days[c])
          /\ WashPoints(days[a]) = WashPoints(days[b])
          /\ WashPoints(days[c]) = WashPoints(days[d])
          /\ summary.best_days = <<Get(days[a], "date", ""), Get(days[b], "date", ""),
                                   Get(days[c], "date", "")>>

Tiers == {"excellent", "good", "acceptable"}

DaysInTier(tier) == {i \in 1..Len(days) : WashTier(days[i]) = tier}

\* the tier a message speaks of
ReportedTier ==
    CASE summary.wash_advice.kind \in {"excellent_one", "excellent_many"} -> "excellent"
      [] summary.wash_advice.kind = "good" -> "good"
      [] summary.wash_advice.kind = "acceptable" -> "acceptable"
      [] OTHER -> "none"

HighestTier ==
    IF DaysInTier("excellent") # {} THEN "excellent"
    ELSE IF DaysInTier("good") # {} THEN "good"
    ELSE IF DaysInTier("acceptable") # {} THEN "acceptable"
    ELSE "none"

\* C18: each day is entered in at most one of the tier lists (excellent, else
\* good, else acceptable); wash_advice reports the highest tier that has a
\* day; its message names at least one and at most 2 dates, each the date of
\* a different day of the reported tier.
C18_HighestTierReported ==
    Summarized =>
        /\ Len(TierDates(days, "excellent")) + Len(TierDates(days, "good"))
              + Len(TierDates(days, "acceptable")) <= Len(days)
        /\ \A t \in Tiers : Len(TierDates(days, t)) = Cardinality(DaysInTier(t))
        /\ ReportedTier = HighestTier
        /\ ReportedTier # "none" =>
              LET named == summary.wash_advice.dates
              IN  /\ Len(named) \in 1..2
                  /\ \E f \in [1..Len(named) -> DaysInTier(ReportedTier)] :
                        /\ \A i \in 1..Len(named) : Get(days[f[i]], "date", "") = named[i]
                        /\ \A i, k \in 1..Len(named) : f[i] = f[k] => i = k

\* C18 witness: three good days and an acceptable one, no excellent day; the
\* message is the "good" one and names two of the three
C18_Witness ==
    /\ Summarized
    /\ Cardinality(DaysInTier("good")) = 3
    /\ Cardinality(DaysInTier("acceptable")) = 1
    /\ summary.wash_advice.kind = "good"
    /\ Len(summary.wash_advice.dates) = 2

\* the days of the reported tier whose date the message names
NamedDays ==
    {i \in DaysInTier(ReportedTier) :
        \E k \in 1..Len(summary.wash_advice.dates) :
            summary.wash_advice.dates[k] = Get(days[i], "date", "")}

\* day a is to be preferred to day b: lower wind speed, then higher temperature
Preferred(a, b) ==
    \/ Wind(a) < Wind(b)
    \/ Wind(a) = Wind(b) /\ Get(a, "temp", 0) > Get(b, "temp", 0)

\* C19 as stated: when more days qualify at the reported tier than the advice
\* names, the named days are chosen by the tie-break: no day of the tier that
\* was left out has a lower wind speed than a named one, or the same wind
\* speed and a higher temperature.
C19_TieBreak ==
    (Summarized /\ ReportedTier # "none") =>
        \A n \in NamedDays : \A u \in DaysInTier(ReportedTier) \ NamedDays :
            ~Preferred(days[u], days[n])

\* the days with mud_flag, and those among them with rain_prob >= p (tenths)
MudDays == {i \in 1..Len(days) : Get(days[i], "mud_flag", FALSE)}

MudDaysFrom(p) == {i \in MudDays : Get(days[i], "rain_prob", 0) >= p}

\* the days a bucket holds: high is rain_prob >= 0.7, medium is 0.3 <= rain_prob
\* < 0.7, low is the other days with mud_flag
BucketDays(level) ==
    CASE level = "high"   -> MudDaysFrom(7)
      [] level = "medium" -> MudDaysFrom(3) \ MudDaysFrom(7)
      [] level = "low"    -> MudDays \ MudDaysFrom(3)
      [] OTHER            -> {}

\* the dates of a set of days, in list order
DatesOf(S) ==
    LET sel == SelectSeq([i \in 1..Len(days) |-> i], LAMBDA i : i \in S)
    IN  [k \in 1..Len(sel) |-> Get(days[sel[k]], "date", "")]

\* C20: mud_risk reports only the highest-severity non-empty bucket of the
\* days with mud_flag: high iff some mud day has rain_prob >= 0.7; else medium
\* iff some mud day has rain_prob >= 0.3; else low iff some day has mud_flag;
\* the no-mud-risk message iff no day has mud_flag. The message lists the days
\* of that bucket and no other; a day without mud_flag never appears.
C20_MudRiskBucket ==
    Summarized =>
        /\ summary.mud_risk.level = "high" <=> MudDaysFrom(7) # {}
        /\ summary.mud_risk.level = "medium" <=>
              (MudDaysFrom(7) = {} /\ MudDaysFrom(3) # {})
        /\ summary.mud_risk.level = "low" <=> (MudDaysFrom(3) = {} /\ MudDays # {})
        /\ summary.mud_risk.level = "none" <=> MudDays = {}
        /\ summary.mud_risk.dates = DatesOf(BucketDays(summary.mud_risk.level))
        /\ \A k \in 1..Len(summary.mud_risk.dates) :
              \E i \in MudDays : Get(days[i], "date", "") = summary.mud_risk.dates[k]

\* C20 witness: a high, a medium and a low mud day next to a day without
\* mud; only the high one is reported
C20_Witness ==
    /\ Summarized
    /\ BucketDays("high") # {} /\ BucketDays("medium") # {} /\ BucketDays("low") # {}
    /\ MudDays # 1..Len(days)
    /\ summary.mud_risk.level = "high"
    /\ Len(summary.mud_risk.dates) = 1

\* the alert kinds in priority order: critical, important, informational
AlertOrder ==
    <<"ice", "storm", "temp_drop_ice", "temp_drop", "wet_snow", "humidity", "wind">>

AlertRank(kind) == CHOOSE r \in 1..Len(AlertOrder) : AlertOrder[r] = kind

\* the condition under which _build_alerts has an alert of a kind for a day
AlertHolds(kind, d) ==
    CASE kind = "ice"   -> Get(d, "ice_risk", FALSE)
      [] kind = "storm" -> Get(d, "storm_risk", FALSE)
      [] kind = "temp_drop_ice" ->
             Get(d, "temp_drop", FALSE) /\ "temp" \in DOMAIN d /\ Get(d, "temp", 0) < 0
      [] kind = "temp_drop" ->
             Get(d, "temp_drop", FALSE) /\ ~("temp" \in DOMAIN d /\ Get(d, "temp", 0) < 0)
      [] kind = "wet_snow" ->
             Get(d, "rain_prob", 0) = 10 /\ AnySnow(Get(d, "conditions", <<>>))
      [] kind = "humidity" -> Get(d, "humidity", 0) > 900
      [] kind = "wind"     -> Wind(d) > 150

\* g names, for each alert of the list, the day it was emitted for
AlertsInOrder(g) ==
    /\ \A p \in DOMAIN g :
          /\ Get(days[g[p]], "date", "") = summary.alerts[p].date
          /\ AlertHolds(summary.alerts[p].kind, days[g[p]])
    /\ \A p, q \in DOMAIN g :
          p < q => \/ g[p] < g[q]
                   \/ /\ g[p] = g[q]
                      /\ AlertRank(summary.alerts[p].kind) < AlertRank(summary.alerts[q].kind)
    /\ \A i \in 1..Len(days) : \A r \in 1..Len(AlertOrder) :
          AlertHolds(AlertOrder[r], days[i]) =>
              \E p \in DOMAIN g : g[p] = i /\ summary.alerts[p].kind = AlertOrder[r]

\* the day each alert belongs to, found from the alert's date
AlertDay(p) ==
    CHOOSE i \in 1..Len(days) :
        /\ Get(days[i], "date", "") = summary.alerts[p].date
        /\ \E r \in 1..Len(AlertOrder) : AlertHolds(AlertOrder[r], days[i])

\* C21: for each day _build_alerts emits every alert whose condition holds,
\* not only the one of highest priority, in the order critical (ice, storm),
\* important (temperature drop, wet snow), informational (humidity, wind);
\* the alerts of an earlier day precede those of a later day, and no alert is
\* emitted whose condition does not hold.
C21_AllAlertsInOrder ==
    Summarized =>
        /\ \A p \in 1..Len(summary.alerts) :
              \E i \in 1..Len(days) : Get(days[i], "date", "") = summary.alerts[p].date
        /\ AlertsInOrder([p \in 1..Len(summary.alerts) |-> AlertDay(p)])

\* C21 witness: a first day with three alerts (important and informational)
\* followed by a day with a critical and an important alert
C21_Witness ==
    /\ Summarized
    /\ Len(days) >= 2
    /\ Len(summary.alerts) = 5
    /\ [p \in 1..5 |-> summary.alerts[p].kind] =
          <<"temp_drop_ice", "humidity", "wind", "ice", "wet_snow">>
    /\ summary.alerts[3].date = Get(days[1], "date", "")
    /\ summary.alerts[4].date = Get(days[2], "date", "")

DistinctDates ==
    \A i, k \in 1..Len(days) :
        Get(days[i], "date", "unknown") = Get(days[k], "date", "unknown") => i = k

\* the mud-risk label the rule gives a day
RiskLabel(d) ==
    IF Get(d, "mud_flag", FALSE) /\ Get(d, "rain_prob", 0) > 5 THEN "High"
    ELSE IF Get(d, "mud_flag", FALSE) THEN "Medium"
    ELSE "Low"

\* C22: for a list of days with pairwise distinct dates, day_summaries has
\* exactly one entry per input day, keyed by the day's date; the entry
\* describes that day, and its mud-risk label is High iff mud_flag and
\* rain_prob > 0.5, Medium iff mud_flag and not rain_prob > 0.5, Low iff
\* mud_flag is false.
C22_DaySummaries ==
    (Summarized /\ DistinctDates) =>
        /\ Cardinality(DOMAIN summary.day_summaries) = Len(days)
        /\ \A i \in 1..Len(days) :
              LET key == Get(days[i], "date", "unknown")
              IN  /\ key \in DOMAIN summary.day_summaries
                  /\ summary.day_summaries[key].date = Get(days[i], "date", "")
                  /\ summary.day_summaries[key].cond = Get(days[i], "conditions", <<>>)
                  /\ summary.day_summaries[key].risk = RiskLabel(days[i])

\* C22 witness: four days of distinct dates, among them mud with rain_prob 1
\* (High), mud with rain_prob exactly 0.5 (Medium) and a day without mud (Low)
C22_Witness ==
    /\ Summarized /\ DistinctDates
    /\ Len(days) = 4
    /\ \E i, k \in 1..Len(days) :
          /\ Get(days[i], "mud_flag", FALSE) /\ Get(days[i], "rain_prob", 0) = 5
          /\ summary.day_summaries[Get(days[i], "date", "unknown")].risk = "Medium"
          /\ Get(days[k], "mud_flag", FALSE) /\ Get(days[k], "rain_prob", 0) = 10
          /\ summary.day_summaries[Get(days[k], "date", "unknown")].risk = "High"
    /\ \E i \in 1..Len(days) : summary.day_summaries[Get(days[i], "date", "unknown")].risk = "Low"

\* no day of the list is excellent, good or acceptable
NoTier == \A i \in 1..Len(days) : WashTier(days[i]) = "none"

AdviceKinds == {"excellent_one", "excellent_many", "good", "acceptable", "postpone"}

Reasons == {"rain_expected", "mud_risk", "no_dry_window", "unfavourable"}

\* C11: for every list of days, the empty list and lists where no day reaches
\* a tier included, wash_advice is one of the five (non-empty) messages; when
\* no day is excellent, good or acceptable it is the postpone message, which
\* names no date and carries at least one reason out of: rain expected, mud
\* risk, no dry window, or the generic unfavourable-conditions reason.
C11_AdviceAlwaysGiven ==
    Summarized =>
        /\ summary.wash_advice.kind \in AdviceKinds
        /\ NoTier =>
              /\ summary.wash_advice.kind = "postpone"
              /\ summary.wash_advice.dates = <<>>
              /\ summary.wash_advice.reasons # <<>>
              /\ \A i \in 1..Len(summary.wash_advice.reasons) :
                    summary.wash_advice.reasons[i] \in Reasons
        /\ ~NoTier => summary.wash_advice.kind # "postpone"

\* C11 witness: a non-empty list with a dry window, no rain above 0.5 and no
\* mud, yet no day in a tier: only the generic reason is left
C11_Witness ==
    /\ Summarized
    /\ days # <<>>
    /\ NoTier
    /\ summary.wash_advice = [kind |-> "postpone", dates |-> <<>>,
                               reasons |-> <<"unfavourable">>]

\* the value each .get() of the engine falls back on (temp: 0 in the score,
\* no value in the alert and in the day text)
NeutralDay ==
    [dry_window |-> FALSE, rain_prob |-> 0, mud_flag |-> FALSE, confidence |-> 10,
     dry_hours |-> 0, ice_risk |-> FALSE, storm_risk |-> FALSE, temp_drop |-> FALSE,
     conditions |-> <<>>, humidity |-> 0, sunny_hours |-> 0, pollen_level |-> 0,
     temp |-> 0]

\* the day with every missing field written out as its neutral value
FillDefaults(d) ==
    [k \in DOMAIN d \cup DOMAIN NeutralDay \cup {"wind_speed"} |->
        IF k \in DOMAIN d THEN d[k]
        ELSE IF k = "wind_speed" THEN Get(d, "wind", 0)
        ELSE NeutralDay[k]]

FilledDays == [i \in 1..Len(days) |-> FillDefaults(days[i])]

\* the day text of the filled day, but for the two values printed as N/A
NeutralDayText(d, evs) ==
    [build_day_text(FillDefaults(d), evs) EXCEPT
        !.temp = IF "temp" \in DOMAIN d THEN @ ELSE "N/A",
        !.hum  = IF "humidity" \in DOMAIN d THEN @ ELSE "N/A"]

\* C12: for day records with any subset of fields missing (up to the dict with
\* no key), build_forecast_summary returns a summary with exactly the five
\* keys, and each missing field counts as its neutral default: the advice, the
\* mud risk, the alerts and the best days are those of the same days with the
\* defaults written out, and each day text is that of the filled day with N/A
\* for a missing temperature or humidity. No read of a missing key fails.
C12_MissingFieldsNeutral ==
    Summarized =>
        /\ DOMAIN summary =
              {"wash_advice", "mud_risk", "alerts", "best_days", "day_summaries"}
        /\ summary.wash_advice = build_wash_advice(FilledDays)
        /\ summary.mud_risk = build_mud_risk(FilledDays)
        /\ summary.alerts = build_alerts(FilledDays)
        /\ summary.best_days = find_best_wash_days(FilledDays)
        /\ DOMAIN summary.day_summaries =
              {Get(days[i], "date", "unknown") : i \in 1..Len(days)}
        /\ \A i \in 1..Len(days) :
              LET date == Get(days[i], "date", "unknown")
              IN  summary.day_summaries[date] =
                      NeutralDayText(days[i], Get(events_by_day, date, <<>>))

\* C12 witness: a list holding a day with no field at all next to days with
\* only some fields; the empty day is summarised under the date "unknown"
C12_Witness ==
    /\ Summarized
    /\ \E i, j \in 1..Len(days) :
          /\ days[i] = EmptyDict
          /\ DOMAIN days[j] = {"date", "mud_flag"}
    /\ "unknown" \in DOMAIN summary.day_summaries
    /\ summary.day_summaries["unknown"].temp = "N/A"
    /\ summary.day_summaries["unknown"].wash_status = "suitable"

----------------------------------------------------------------------------
(* Properties of the detector set and of the normalizer *)

Evaluated == ev_pc = "evaluated"

\* the entries of the returned list that describe detector `name`
ResultsOf(name) == {i \in 1..Len(events.value) : events.value[i].name = name}

IsResult(e) == "triggered" \in DOMAIN e /\ "message" \in DOMAIN e
IsError(e)  == "error" \in DOMAIN e /\ "triggered" \notin DOMAIN e

OneFailingFiveSucceeding ==
    /\ Len(registry) = 6
    /\ Cardinality({i \in 1..6 : registry[i] = "WeatherEvent"}) = 1
    /\ Cardinality({registry[i] : i \in 1..6} \cap Detectors) = 5

EntriesStandAlone ==
    \A k \in 1..Len(events.value) : events.value[k] = RunOne(registry[k], evt_day)

\* a registry holding the same detectors in another order gives each detector
\* the same entry
OrderIrrelevant ==
    \A reg \in Registries : \A k \in 1..Len(registry), m \in 1..Len(reg) :
        reg[m] = registry[k] => run_all(reg, evt_day).value[m] = events.value[k]

\* the day handed to the batch is still one of the days the caller had
DayIntact ==
    IF daily = <<>> THEN evt_day \in HandDays
    ELSE \E i \in 1..Len(daily) : evt_day = daily[i]

C6_TemperatureDelta ==
    ev_pc # "input" =>
        \A i \in 1..Len(daily) :
            /\ i = 1 => "temp_delta" \notin DOMAIN daily[i]
            /\ i > 1 => /\ "temp_delta" \in DOMAIN daily[i]
                        /\ daily[i].temp_delta = daily[i].temp - daily[i - 1].temp
            /\ daily[i].temp_drop <=>
                  ("temp_delta" \in DOMAIN daily[i] /\ daily[i].temp_delta <= -50)

\* C6 witness: a second day whose delta is exactly -5, a drop, one of the two
\* days being the average of two samples
C6_Witness ==
    /\ ev_pc = "normalized"
    /\ Len(daily) = 2
    /\ daily[2].temp_drop
    /\ daily[2].temp_delta = -50
    /\ Len(raw_samples) = 3

\* C7: the mud indication (mud_flag of a normalized day, MudEvent on any day)
\* is true only if (humidity >= 75 and the day has precipitation, rain_prob 1)
\* or melt_flag is true.
MudCause(d) ==
    \/ Get(d, "humidity", 0) >= 750 /\ Get(d, "rain_prob", 0) = 10
    \/ Get(d, "melt_flag", FALSE)

C8_TemperatureDrop ==
    Evaluated =>
        \A i \in ResultsOf("TemperatureDropEvent") :
            /\ IsResult(events.value[i])
            /\ events.value[i].triggered <=>
                  \/ "temp_delta" \in DOMAIN evt_day /\ evt_day["temp_delta"] <= -50
                  \/ /\ "temp_delta" \notin DOMAIN evt_day
                     /\ "temp" \in DOMAIN evt_day
                     /\ evt_day["temp"] <= 10

\* C8 witness: a day with a delta above -5 and a temperature <= 1 was evaluated
C8_Witness ==
    /\ Evaluated
    /\ "temp_delta" \in DOMAIN evt_day /\ evt_day["temp_delta"] > -50
    /\ Get(evt_day, "temp", 9990) <= 10
    /\ \E i \in ResultsOf("TemperatureDropEvent") : ~events.value[i].triggered

\* C9: SnowEvent triggers exactly when some condition label contains "snow"
\* (case-insensitive); MeltEvent triggers exactly when melt_flag is set, which
\* in a normalized forecast requires snow on the previous day and an average
\* temperature above 0.
SnowLabel(d) ==
    \E i \in 1..Len(Get(d, "conditions", <<>>)) :
        \E j \in 1..(Len(d["conditions"][i]) - 3) :
            /\ d["conditions"][i][j]     \in {"s", "S"}
            /\ d["conditions"][i][j + 1] \in {"n", "N"}
            /\ d["conditions"][i][j + 2] \in {"o", "O"}
            /\ d["conditions"][i][j + 3] \in {"w", "W"}

C9_SnowAndMelt ==
    /\ Evaluated =>
          /\ \A i \in ResultsOf("SnowEvent") :
                IsResult(events.value[i]) /\ (events.value[i].triggered <=> SnowLabel(evt_day))
          /\ \A i \in ResultsOf("MeltEvent") :
                IsResult(events.value[i])
                /\ (events.value[i].triggered <=> Get(evt_day, "melt_flag", FALSE))
    /\ ev_pc # "input" =>
          \A i \in 1..Len(daily) :
              daily[i].melt_flag => i > 1 /\ daily[i - 1].had_snow /\ daily[i].temp > 0

\* C9 witness (concrete scenario 2): conditions ["Snow"] at -3 degrees after a
\* day without snow; SnowEvent triggers and MeltEvent does not
C9_Witness ==
    /\ Evaluated
    /\ Len(daily) = 2
    /\ evt_day = daily[2]
    /\ evt_day.conditions = <<LSnow>> /\ evt_day.temp = -30
    /\ ~daily[1].had_snow
    /\ evt_day.had_snow /\ ~evt_day.melt_flag
    /\ \E i \in ResultsOf("SnowEvent") : events.value[i].triggered
    /\ \E i \in ResultsOf("MeltEvent") : ~events.value[i].triggered

----------------------------------------------------------------------------
(* Properties of the weather service *)

\* the raw forecast is null, empty, or carries no daily sample
NoDailySamples(fc) ==
    \/ IsNone(fc)
    \/ DOMAIN fc = {}
    \/ IsDict(fc) /\ Get(fc, "daily_data", <<>>) = <<>>

Replied == fc_pc \in {"built", "sent"}

Permuted(list, p) == [i \in 1..Len(list) |-> list[p[i]]]

DatedDays(fc) == {i \in 1..Len(fc.daily_data) : "date" \in DOMAIN fc.daily_data[i]}

\* C5 as stated: whatever the order in which the 3-hour items of a reply
\* arrive, _process_forecast_data gives the same list of per-day records, in
\* ascending order of date and without a date twice.
C5_OrderIndependent ==
    (fc_pc = "received" /\ IsDict(forecast) /\ "daily_data" \in DOMAIN forecast) =>
        /\ \A p \in Permutations(1..Len(api_list)) :
              process_forecast_data(Permuted(api_list, p), ClampDays(api_days)) = forecast
        /\ \A i, j \in DatedDays(forecast) :
              i < j => DayNumber(forecast.daily_data[i].date)
                         < DayNumber(forecast.daily_data[j].date)

\* precipitation volume summed over the items of the reply that fall on a date
DayVolume(date) ==
    LET fs == DictValue(api_list, date)
    IN  SumOf([k \in 1..Len(fs) |-> Get(fs[k], "rain3h", 0)])

\* C15 as stated: for each aggregated day rain_probability is a 0/1 flag, 1
\* (10 in tenths) if the precipitation volume summed over the day's samples
\* is greater than 0, and 0 otherwise.
C15_RainFlag ==
    (fc_pc = "received" /\ IsDict(forecast) /\ "daily_data" \in DOMAIN forecast) =>
        \A i \in DatedDays(forecast) :
            forecast.daily_data[i].rain_probability =
                (IF DayVolume(forecast.daily_data[i].date) > 0 THEN 10 ELSE 0)

\* C16 as stated: a second WeatherAnalyzer built from the same payload at any
\* other moment returns the same get_daily_summary, get_best_wash_day,
\* get_weather_alerts (one list, the same alerts in the same order) and
\* get_current_weather as the first: nothing depends on the clock or on other
\* hidden state.
C16_PureFacade ==
    (fc_pc = "analyzed" /\ analyzer.wash_thresholds = wash_thresholds) =>
        \A now \in Times :
            LET second == WeatherAnalyzer(forecast, now)
            IN  /\ get_daily_summary(second) = get_daily_summary(analyzer)
                /\ get_best_wash_day(second) = get_best_wash_day(analyzer)
                /\ \A l1 \in get_weather_alerts(analyzer),
                      l2 \in get_weather_alerts(second) : l1 = l2
                /\ second.current_weather = analyzer.current_weather

\* the wash scores the analyzer holds and those it hands out
ScoresHeld ==
    {analyzer.daily_data[i].wash_score : i \in 1..Len(analyzer.daily_data)}

ScoresGiven ==
    IF IsNone(weather_data) THEN {}
    ELSE {weather_data.daily_summary[i].wash_score :
              i \in 1..Len(weather_data.daily_summary)}

\* C13: for every day and under every configuration of the wash thresholds
\* the wash score lies in 0..100 (0..1000 in tenths): the scores an analyzer
\* holds after construction and after each update_thresholds, and the scores
\* get_city_forecast returns.
C13_WashScoreRange ==
    /\ fc_pc = "analyzed" => \A x \in ScoresHeld : 0 <= x /\ x <= 1000
    /\ fc_pc \in {"fetched", "built", "sent"} =>
          \A x \in ScoresGiven : 0 <= x /\ x <= 1000

\* C13 witness: with max_wind_speed lowered, a frosty and windy day without
\* rain passes the three early returns, its penalties add up to more than 100
\* and the last line scores it 0; another day is scored 100
C13_Witness ==
    /\ fc_pc = "analyzed"
    /\ analyzer.wash_thresholds = [wash_thresholds EXCEPT !.max_wind_speed = 50]
    /\ \E i, j \in 1..Len(analyzer.daily_data) :
          /\ analyzer.daily_data[i].rain_probability = 0
          /\ analyzer.daily_data[i].temperature_avg < 0
          /\ analyzer.daily_data[i].wind_speed_avg > analyzer.wash_thresholds.max_wind_speed
          /\ analyzer.daily_data[i].wash_score = 0
          /\ analyzer.daily_data[j].wash_score = 1000

----------------------------------------------------------------------------
(* Properties of the recommendation services *)

Recommended(cls) == rec_last.called /\ rec_class = cls /\ rec_last.result.success

\* C23 as stated: a tire change is recommended only if the next 3 forecast
\* days confirm it: winter needs a current temperature below 5 and no day
\* among the next 3 with a maximum above 7, summer needs a current
\* temperature above 15 and no day among the next 3 with a minimum below 10.
C23_TireChangeConfirmed ==
    (Recommended("TireRecommendationService")
       /\ rec_last.result.analysis.change_recommended) =>
        LET fc    == rec_last.forecast
            next3 == Take(fc.daily, 3)
        IN  \/ /\ fc.current.temperature < 50
               /\ \A i \in 1..Len(next3) : next3[i].temperature_max <= 70
            \/ /\ fc.current.temperature > 150
               /\ \A i \in 1..Len(next3) : next3[i].temperature_min >= 100

RoadAnalysis == rec_last.result.analysis

HasRisk(r) == \E i \in 1..Len(RoadAnalysis.risks) : RoadAnalysis.risks[i] = r

\* 5 - min(4, n)
ScoreFor(n) == 5 - (IF n < 4 THEN n ELSE 4)

Fresh(cache, key, now) ==
    key \in DOMAIN cache /\ now - cache[key].timestamp < cache_timeout

\* what one _get_weather_data call (the step to rec_last') did, seen from
\* the cache before and after it
CacheStep ==
    LET key == get_cache_key(rec_last'.city, rec_class)
    IN  /\ ~rec_last'.queried <=> Fresh(rec_cache, key, rec_now)
        /\ ~rec_last'.queried =>
              /\ rec_last'.forecast = rec_cache[key].data
              /\ rec_cache' = rec_cache
        /\ (rec_last'.queried /\ ~IsNone(rec_last'.forecast)) =>
              /\ DOMAIN rec_cache' = DOMAIN rec_cache \cup {key}
              /\ rec_cache'[key] = [data |-> rec_last'.forecast, timestamp |-> rec_now]
              /\ \A k \in DOMAIN rec_cache \ {key} : rec_cache'[k] = rec_cache[k]
        /\ (rec_last'.queried /\ IsNone(rec_last'.forecast)) =>
              /\ rec_cache' = rec_cache
              /\ ~rec_last'.result.success

\* C29: after any sequence of _get_weather_data calls, a forecast is served
\* from the cache only if it was stored for the same city and the same
\* service class less than cache_timeout (3600 s) earlier; otherwise the
\* weather service is queried, a non-empty result replaces the entry with a
\* fresh timestamp, and an empty result is returned as None, without being
\* cached and without the expired entry being handed back.
C29_CacheDiscipline ==
    /\ [][rec_last' # rec_last => CacheStep]_vars
    /\ [](\A k \in DOMAIN rec_cache :
            /\ rec_cache[k].timestamp <= rec_now
            /\ k[2] = rec_class
            /\ ~IsNone(rec_cache[k].data))

\* C29 witness: the entry of the city is exactly 3600 s old, the weather
\* service was asked and gave nothing, and the caller got None
C29_Witness ==
    /\ rec_last.called
    /\ rec_last.at = rec_now
    /\ rec_last.queried
    /\ IsNone(rec_last.forecast)
    /\ get_cache_key(rec_last.city, rec_class) \in DOMAIN rec_cache
    /\ rec_now - rec_cache[get_cache_key(rec_last.city, rec_class)].timestamp = cache_timeout

----------------------------------------------------------------------------
(* Properties of WeatherAnalyzer.get_best_wash_day and update_thresholds *)

\* the first day, in forecast order, of the highest wash_score of all days
TopDay ==
    CHOOSE i \in 1..Len(analyzer.daily_data) :
        /\ \A j \in 1..Len(analyzer.daily_data) :
              analyzer.daily_data[j].wash_score <= analyzer.daily_data[i].wash_score
        /\ \A j \in 1..(i - 1) :
              analyzer.daily_data[j].wash_score < analyzer.daily_data[i].wash_score

\* C25: get_best_wash_day returns None exactly when no day has a wash_score
\* of at least 50 (500 in tenths); otherwise it returns the first day, in
\* forecast order, that attains the maximum wash_score over all days, with
\* that day's own date, wash_score and recommendation.
C25_BestWashDay ==
    fc_pc = "analyzed" =>
        LET best == get_best_wash_day(analyzer)
        IN  /\ IsNone(best) <=>
                 ~\E i \in 1..Len(analyzer.daily_data) :
                      analyzer.daily_data[i].wash_score >= 500
            /\ ~IsNone(best) =>
                 /\ best.date = analyzer.daily_data[TopDay].date
                 /\ best.wash_score = analyzer.daily_data[TopDay].wash_score
                 /\ best.recommendation = analyzer.daily_data[TopDay].wash_recommendation

\* C25 witness: two days share the highest score, which is 50 or more, a
\* third day scores less, and the earlier of the two is returned
C25_Witness ==
    /\ fc_pc = "analyzed"
    /\ Len(analyzer.daily_data) = 3
    /\ \E i, j, k \in 1..3 :
          /\ i < j
          /\ analyzer.daily_data[i].wash_score = analyzer.daily_data[j].wash_score
          /\ analyzer.daily_data[i].wash_score >= 500
          /\ analyzer.daily_data[k].wash_score < analyzer.daily_data[i].wash_score
          /\ ~IsNone(get_best_wash_day(analyzer))
          /\ get_best_wash_day(analyzer).date = analyzer.daily_data[i].date

\* C25 witness of the other case: the best day scores between 40 and 50 and
\* nothing is returned
C25_NoneBelowFifty ==
    /\ fc_pc = "analyzed"
    /\ \E i \in 1..Len(analyzer.daily_data) : analyzer.daily_data[i].wash_score >= 400
    /\ IsNone(get_best_wash_day(analyzer))

\* raw_data['daily_data'] of the analyzer, [] when there is none
RawDays ==
    IF IsDict(analyzer.raw_data) /\ "daily_data" \in DOMAIN analyzer.raw_data
      THEN analyzer.raw_data.daily_data
      ELSE <<>>

\* the verdict bands of _get_wash_recommendation_text, in tenths
VerdictBand(score) ==
    CASE score >= 900 -> "ideal"
      [] score >= 750 /\ score < 900 -> "excellent"
      [] score >= 600 /\ score < 750 -> "good"
      [] score >= 400 /\ score < 600 -> "conditional"
      [] score >= 200 /\ score < 400 -> "not_recommended"
      [] OTHER -> "unsuitable"

\* the weather fields of a stored day are those of the raw day
SameWeather(day, day_data) ==
    \A f \in DOMAIN WeatherDay(day_data) : day[f] = WeatherDay(day_data)[f]

\* C30: after construction and after any sequence of update_thresholds calls
\* every day's stored wash_score is the score of that day's weather under the
\* analyzer's current thresholds, its wash_recommendation is the verdict band
\* of that score, and the day's weather fields are the ones it was built with.
C30_ScoresFollowThresholds ==
    fc_pc = "analyzed" =>
        /\ Len(analyzer.daily_data) = Len(RawDays)
        /\ \A i \in 1..Len(analyzer.daily_data) :
              LET day == analyzer.daily_data[i]
              IN  /\ SameWeather(day, RawDays[i])
                  /\ day.wash_score =
                        calculate_wash_score(WeatherDay(RawDays[i]), analyzer.wash_thresholds)
                  /\ day.wash_recommendation = VerdictBand(day.wash_score)

\* C30 witness: two update_thresholds calls have been made and a day's score
\* and verdict are no longer the ones the constructor gave it
C30_Witness ==
    /\ fc_pc = "analyzed"
    /\ Cardinality({k \in DOMAIN wash_thresholds :
                       analyzer.wash_thresholds[k] # wash_thresholds[k]}) >= 3
    /\ \E i \in 1..Len(analyzer.daily_data) :
          LET built == ScoredDay(RawDays[i], wash_thresholds)
          IN  /\ analyzer.daily_data[i].wash_score # built.wash_score
              /\ analyzer.daily_data[i].wash_recommendation # built.wash_recommendation

----------------------------------------------------------------------------
(* Properties of the notification daemons *)

\* C26: run_daemon recovers from errors: after a critical error raised inside
\* the loop it waits and then resumes checking subscribers, so that the top
\* of the loop, where the subscribers are read, is eventually reached again
\* after every error.
C26_RecoversFromErrors ==
    (daemon = "weather_daemon" /\ wd_pc = "recover") ~> (wd_pc = "check")

\* what run_daemon does after a critical error: it never reads the
\* subscribers again
C26_ErrorEndsDaemon ==
    [][(wd_pc = "recover" \/ wd_pc = "returned") => (wd_pc' # "check" /\ wd_pc' # "send")]_vars

\* minutes between two times of day, the shorter way round the clock
MinutesApart(a, b) ==
    LET d == IF a < b THEN b - a ELSE a - b
    IN  IF d <= 1440 - d THEN d ELSE 1440 - d

\* the user's current local time of day at the clock reading `now`
LocalTimeOf(user, now) ==
    IF user.timezone # 0 THEN (now.utc + 60 * user.timezone) % 1440 ELSE now.local

\* the user's notification_time is within 5 minutes, before or after, of the
\* user's local time
WithinFiveMinutes(user, now) ==
    LET t == strptime(user.notification_time)
    IN  /\ ~t.raised
        /\ MinutesApart(LocalTimeOf(user, now), t.hour * 60 + t.minute) <= 5

\* the rows of the running cycle for which a coroutine was created
Notified == {tasks[t].user : t \in 1..Len(tasks)}

\* C27: _should_send_notification returns True exactly when the user's
\* current local time of day is within 5 minutes, before or after, of the
\* user's notification_time, for every pair of times, pairs on opposite sides
\* of midnight included; on an unparsable notification_time it returns False.
C27_DueWithinFiveMinutes ==
    cycle.started > 0 =>
        \A i \in 1..Len(cycle.users) :
            /\ should_send_notification(cycle.users[i], cycle.at)
                   <=> WithinFiveMinutes(cycle.users[i], cycle.at)
            /\ cycle.users[i] \in Notified <=> WithinFiveMinutes(cycle.users[i], cycle.at)

\* what holds of _should_send_notification: the two times are compared as
\* minutes of one day, without going round midnight
C27_DueSameDayOnly ==
    \A i \in 1..Len(subscribers) :
        LET t == strptime(subscribers[i].notification_time)
            m == LocalTimeOf(subscribers[i], clock)
        IN  should_send_notification(subscribers[i], clock)
                <=> /\ ~t.raised
                    /\ m - (t.hour * 60 + t.minute) <= 5
                    /\ (t.hour * 60 + t.minute) - m <= 5

\* the coroutines of the cycle that returned True
Succeeded == {t \in 1..Len(tasks) : tasks[t].pc = "done" /\ tasks[t].result}

\* C28: in one notification cycle every subscribed user who is due gets
\* exactly one send attempt, a failure for one user does not prevent the
\* attempt for any other user of the cycle, and the sent counter grows by one
\* per successful send only; the same for one pass of run_daemon over its
\* users.
C28_OneAttemptPerUser ==
    /\ cycle.started > 0 =>
          /\ \A i \in 1..Len(cycle.users) :
                Cardinality({t \in 1..Len(tasks) : tasks[t].user = cycle.users[i]})
                    = IF should_send_notification(cycle.users[i], cycle.at) THEN 1 ELSE 0
          /\ nd_pc = "idle" => \A t \in 1..Len(tasks) : tasks[t].pc = "done"
          /\ stats.notifications_sent
                = cycle.stats.notifications_sent + Cardinality(Succeeded)
          /\ \A t \in Succeeded : tasks[t].sending = "forecast"
    /\ daemon = "weather_daemon" =>
          /\ Len(attempted) <= Len(users)
          /\ \A i \in 1..Len(attempted) : attempted[i].chat_id = users[i].chat_id
          /\ wd_pc # "send" => Len(attempted) = Len(users)
          /\ success_count
                = Cardinality({i \in 1..Len(attempted) : attempted[i].outcome = "sent"})

\* C28 witness: a cycle with two users due has ended; the send to the first
\* raised, the second user got the forecast and the counter grew by one
C28_Witness ==
    /\ daemon = "notification_daemon"
    /\ cycle.started > 0
    /\ nd_pc = "idle"
    /\ Len(tasks) = 2
    /\ tasks[1].pc = "done" /\ tasks[1].sending = "forecast" /\ ~tasks[1].result
    /\ tasks[2].pc = "done" /\ tasks[2].result
    /\ stats.errors = cycle.stats.errors + 1
    /\ stats.notifications_sent = cycle.stats.notifications_sent + 1

\* C28 witness for run_daemon: the pass over two users is over, the first
\* attempt raised and the second was sent
C28_PassWitness ==
    /\ daemon = "weather_daemon"
    /\ wd_pc = "check"
    /\ Len(attempted) = 2
    /\ attempted[1].outcome = "raised"
    /\ attempted[2].outcome = "sent"
    /\ success_count = 1

========================================================================
